---- MODULE Spec2Model ----
(***************************************************************************)
(* Model of the audit-logging pipeline of site-geav-api:                   *)
(*   internal/logger/logger.go     LogEntry, CompositeLogger, context      *)
(*                                 extraction                              *)
(*   internal/logger/db_logger.go  DBLogger (database sink) and            *)
(*                                 CloudWatchLogger (metrics sink)         *)
(*   cmd/users/main.go             wiring of the process-wide logger, and  *)
(*                                 router                                  *)
(*   internal/handlers             GetUser, CreateLugar and the response   *)
(*                                 helpers, over the PostgreSQL            *)
(*                                 repositories                            *)
(*                                                                         *)
(* Go values are modelled as follows.                                      *)
(*   interface{} value : [t, s, n]   t is the dynamic type ("string",      *)
(*                       "int", "chan"), s the string payload, n the int   *)
(*                       payload.                                          *)
(*   map[string]interface{} : [isNil, kv] with kv a set of [k, val]        *)
(*                       entries, at most one per key.                     *)
(*   error             : [isNil, msg]                                      *)
(*   []byte            : [isNil, text]                                     *)
(*   time.Time         : a natural number of clock ticks.                  *)
(*                                                                         *)
(* The specifications share the variables.                                  *)
(*   Spec           one call of a severity method on a composite logger,   *)
(*                  with every kind of argument.                           *)
(*   EntrySpec      one call, made with every kind of context.             *)
(*   HandlerSpec    one invocation of router: its handler, the calls the   *)
(*                  handler makes on the process-wide logger, statement    *)
(*                  by statement, and its response.                        *)
(*   ConcurrentSpec MaxRequests invocations whose statements interleave.   *)
(* Each starts from a database that is either fresh or already holds the   *)
(* audit table with a row of an earlier invocation.  The database and the  *)
(* metrics service answer each statement or request with success or with   *)
(* an error.                                                               *)
(***************************************************************************)
EXTENDS Integers, Sequences, FiniteSets, TLC

(***************************************************************************)
(* Bounds of the model.                                                    *)
(***************************************************************************)
\* longest sink list given to NewCompositeLogger
MaxSinks == 2
\* last tick of the wall clock
MaxClock == 1
\* images in the body of a POST /lugares
MaxImages == 1
\* tags, and ramos, in the body of a POST /lugares or a POST /cancoes
MaxTags == 1
\* invocations of router running at the same time
MaxRequests == 2

(***************************************************************************)
(* State.                                                                  *)
(***************************************************************************)
VARIABLES
    loggers,    \* CompositeLogger.loggers
    pc,         \* "idle", "fanout" (inside a severity method), "returned",
                \* "raised" (a sink handed an error back)
    frame,      \* arguments of the severity method in progress
    idx,        \* position of the range loop in loggers
    delivered,  \* the calls made on the sub-sinks, in order
    built,      \* the LogEntry each of those calls built, in order
    clock,      \* the wall clock time.Now() reads
    tables,     \* tables of the database
    rows,       \* rows of the audit table, in insertion order
    puts,       \* PutMetricData requests made, in order, each with the
                \* position of the sink that made it
    stdout,     \* lines printed, in order
    store,      \* the tables of the application
    rq,         \* the invocations of router in progress, each with its
                \* position, its context and the calls it made
    trace       \* what the invocations did to the sinks, in order

vars ==
    <<loggers, pc, frame, idx, delivered, built, clock, tables, rows, puts, stdout,
      store, rq, trace>>

(***************************************************************************)
(* Go values.                                                              *)
(***************************************************************************)
StrVal(s) == [t |-> "string", s |-> s, n |-> 0]
IntVal(n) == [t |-> "int", s |-> "", n |-> n]
\* a value encoding/json cannot serialize (a channel)
ChanVal == [t |-> "chan", s |-> "", n |-> 0]

NilMap == [isNil |-> TRUE, kv |-> {}]
MapOf(kv) == [isNil |-> FALSE, kv |-> kv]
KV(k, val) == [k |-> k, val |-> val]

HasKey(m, k) == \E e \in m.kv : e.k = k
Lookup(m, k) == (CHOOSE e \in m.kv : e.k = k).val
\* the Go type assertion  m[k].(string)  : the ok flag and the value
IsString(m, k) == HasKey(m, k) /\ Lookup(m, k).t = "string"
AsString(m, k) == IF IsString(m, k) THEN Lookup(m, k).s ELSE ""
IsInt(m, k) == HasKey(m, k) /\ Lookup(m, k).t = "int"
AsInt(m, k) == IF IsInt(m, k) THEN Lookup(m, k).n ELSE 0

NilErr == [isNil |-> TRUE, msg |-> ""]
ErrOf(msg) == [isNil |-> FALSE, msg |-> msg]

\* a panic, as the value the goroutine unwinds with
Panic(msg) == [isNil |-> FALSE, msg |-> "panic: " \o msg]

NilBytes == [isNil |-> TRUE, text |-> ""]
Bytes(text) == [isNil |-> FALSE, text |-> text]

(***************************************************************************)
(* logger.go: levels and the five severity methods.                        *)
(***************************************************************************)
DEBUG == "DEBUG"
INFO == "INFO"
WARN == "WARN"
ERROR == "ERROR"
FATAL == "FATAL"
LogLevel == {DEBUG, INFO, WARN, ERROR, FATAL}

Methods == {"Debug", "Info", "Warn", "Error", "Fatal"}
\* the methods whose signature carries an error argument
ErrMethods == {"Error", "Fatal"}

(***************************************************************************)
(* logger.go: context extraction.  A context is a map of values.           *)
(***************************************************************************)
GetRequestIDFromContext(ctx) ==
    IF ctx.isNil THEN ""
    ELSE IF IsString(ctx, "requestID") THEN AsString(ctx, "requestID")
    ELSE ""

GetUserIDFromContext(ctx) ==
    IF ctx.isNil THEN 0
    ELSE IF IsInt(ctx, "userID") THEN AsInt(ctx, "userID")
    ELSE 0

(***************************************************************************)
(* encoding/json as the sinks use it.                                      *)
(***************************************************************************)
Quote(s) == "\"" \o s \o "\""

\* keys of the maps of this model, in the byte order json.Marshal emits them
KeyOrder ==
    <<"action", "attempt", "count", "handle", "image_id", "ramo_id", "rating",
      "rating_id", "resource", "resource_id", "tag_id">>

JSONValue(val) ==
    IF val.t = "string" THEN Quote(val.s) ELSE ToString(val.n)

\* json.Marshal fails on a map holding a value of an unsupported type
MarshalMapFails(m) == \E e \in m.kv : e.val.t = "chan"

RECURSIVE MarshalMembers(_, _, _)
MarshalMembers(m, i, first) ==
    IF i > Len(KeyOrder) THEN ""
    ELSE IF HasKey(m, KeyOrder[i])
         THEN (IF first THEN "" ELSE ",")
              \o Quote(KeyOrder[i]) \o ":" \o JSONValue(Lookup(m, KeyOrder[i]))
              \o MarshalMembers(m, i + 1, FALSE)
         ELSE MarshalMembers(m, i + 1, first)

\* json.Marshal(map[string]interface{}) : text of a non-failing marshal
MarshalMap(m) ==
    IF m.isNil THEN "null" ELSE "{" \o MarshalMembers(m, 1, TRUE) \o "}"

\* json.Marshal(LogEntry): the struct tags of LogEntry; Error is tagged "-"
MarshalEntryFails(entry) == MarshalMapFails(entry.Metadata)

MarshalEntry(entry) ==
    "{" \o Quote("timestamp") \o ":" \o ToString(entry.Timestamp)
    \o "," \o Quote("level") \o ":" \o Quote(entry.Level)
    \o "," \o Quote("message") \o ":" \o Quote(entry.Message)
    \o "," \o Quote("service_name") \o ":" \o Quote(entry.ServiceName)
    \o (IF entry.RequestID = "" THEN ""
        ELSE "," \o Quote("request_id") \o ":" \o Quote(entry.RequestID))
    \o (IF entry.UserID = 0 THEN ""
        ELSE "," \o Quote("user_id") \o ":" \o ToString(entry.UserID))
    \o (IF entry.Action = "" THEN ""
        ELSE "," \o Quote("action") \o ":" \o Quote(entry.Action))
    \o (IF entry.Resource = "" THEN ""
        ELSE "," \o Quote("resource") \o ":" \o Quote(entry.Resource))
    \o (IF entry.ResourceID = "" THEN ""
        ELSE "," \o Quote("resource_id") \o ":" \o Quote(entry.ResourceID))
    \o (IF entry.Metadata.kv = {} THEN ""
        ELSE "," \o Quote("metadata") \o ":" \o MarshalMap(entry.Metadata))
    \o "}"

(***************************************************************************)
(* db_logger.go: the lines the sinks print when something fails.           *)
(***************************************************************************)
JSONUnsupported == "json: unsupported type: chan int"
LineMarshalEntry == "Error marshaling log entry: " \o JSONUnsupported
LineMetric(err) == "Error sending metric to CloudWatch: " \o err.msg
LineEnsure(err) == "Error ensuring log table: " \o err.msg
LineMarshalMetadata == "Error marshaling metadata: " \o JSONUnsupported
LineInsert(err) == "Error inserting log entry: " \o err.msg

(***************************************************************************)
(* logger.go: LogEntry, and its construction by each sink.                 *)
(***************************************************************************)
LogEntry(ts, level, message, serviceName, requestID, userID, err) ==
    [Timestamp |-> ts, Level |-> level, Message |-> message,
     ServiceName |-> serviceName, RequestID |-> requestID, UserID |-> userID,
     Action |-> "", Resource |-> "", ResourceID |-> "",
     Metadata |-> NilMap, Error |-> err]

\* "Merge metadata": the first map of the variadic argument, when there is one
MergeMetadata(entry, metadata) ==
    IF Len(metadata) > 0 THEN [entry EXCEPT !.Metadata = metadata[1]] ELSE entry

\* an extraction that formats whatever value the key holds (fmt.Sprint)
ExtractFields_Sprint(entry) ==
    LET Sprint(k) == IF Lookup(entry.Metadata, k).t = "string"
                     THEN Lookup(entry.Metadata, k).s
                     ELSE ToString(Lookup(entry.Metadata, k).n)
    IN  IF entry.Metadata.isNil THEN entry
        ELSE [entry EXCEPT
                !.Action = IF HasKey(entry.Metadata, "action")
                           THEN Sprint("action") ELSE @,
                !.Resource = IF HasKey(entry.Metadata, "resource")
                             THEN Sprint("resource") ELSE @,
                !.ResourceID = IF HasKey(entry.Metadata, "resource_id")
                               THEN Sprint("resource_id") ELSE @]

\* "Extract action, resource, and resourceID from metadata if available"
ExtractFields(entry) ==
    IF entry.Metadata.isNil THEN entry
    ELSE [entry EXCEPT
            !.Action = IF IsString(entry.Metadata, "action")
                       THEN AsString(entry.Metadata, "action") ELSE @,
            !.Resource = IF IsString(entry.Metadata, "resource")
                         THEN AsString(entry.Metadata, "resource") ELSE @,
            !.ResourceID = IF IsString(entry.Metadata, "resource_id")
                           THEN AsString(entry.Metadata, "resource_id") ELSE @]

\* DBLogger.createLogEntry; now is the value time.Now() returns
DBLogger_createLogEntry(l, now, ctx, level, message, err, metadata) ==
    ExtractFields(MergeMetadata(
        LogEntry(now, level, message, l.serviceName,
                 GetRequestIDFromContext(ctx), GetUserIDFromContext(ctx), err),
        metadata))

\* a metrics-sink entry that leaves the user id out
CloudWatchLogger_createLogEntry_NoUser(l, now, ctx, level, message, err, metadata) ==
    ExtractFields(MergeMetadata(
        LogEntry(now, level, message, l.serviceName,
                 GetRequestIDFromContext(ctx), 0, err),
        metadata))

\* CloudWatchLogger.createLogEntry
CloudWatchLogger_createLogEntry(l, now, ctx, level, message, err, metadata) ==
    ExtractFields(MergeMetadata(
        LogEntry(now, level, message, l.serviceName,
                 GetRequestIDFromContext(ctx), GetUserIDFromContext(ctx), err),
        metadata))

(***************************************************************************)
(* db_logger.go: the metrics sink (CloudWatchLogger).                      *)
(***************************************************************************)
NewCloudWatchLogger(serviceName, namespace) ==
    [kind |-> "cw", serviceName |-> serviceName, namespace |-> namespace,
     tableName |-> ""]

Dimension(name, value) == [Name |-> name, Value |-> value]

\* fmt.Sprintf("%s_%s", entry.Level, entry.Resource), then the emptiness test
MetricName(level, resource) ==
    LET metricName == level \o "_" \o resource
    IN  IF metricName = "" THEN level ELSE metricName

\* dimensions whose Action is nested under the Resource test
MetricDimensions_ActionUnderResource(serviceName, entry) ==
    <<Dimension("ServiceName", serviceName)>>
    \o (IF entry.Resource # ""
        THEN <<Dimension("Resource", entry.Resource)>>
             \o (IF entry.Action # "" THEN <<Dimension("Action", entry.Action)>>
                 ELSE <<>>)
        ELSE <<>>)

MetricDimensions(serviceName, entry) ==
    <<Dimension("ServiceName", serviceName)>>
    \o (IF entry.Resource # "" THEN <<Dimension("Resource", entry.Resource)>>
        ELSE <<>>)
    \o (IF entry.Action # "" THEN <<Dimension("Action", entry.Action)>>
        ELSE <<>>)

\* the PutMetricDataInput that putMetricData hands to the client
PutMetricDataInput(l, entry) ==
    [Namespace |-> l.namespace,
     MetricData |-> <<[MetricName |-> MetricName(entry.Level, entry.Resource),
                       Dimensions |-> MetricDimensions(l.serviceName, entry),
                       Timestamp |-> entry.Timestamp,
                       Value |-> 1,
                       Unit |-> "Count"]>>]

\* client.PutMetricData derives the context of the operation from the one it
\* is given (context.WithValue), which panics on a nil context
PanicNilParent == Panic("cannot create context from nil parent")

\* putMetricData: the request made and the client's error as the return
\* value, or, on a nil context, no request and the panic of the client
putMetricData(l, ctx, entry, clientErr) ==
    IF ctx.isNil
    THEN [sent |-> FALSE, request |-> PutMetricDataInput(l, entry),
          err |-> NilErr, panic |-> PanicNilParent]
    ELSE [sent |-> TRUE, request |-> PutMetricDataInput(l, entry),
          err |-> clientErr, panic |-> NilErr]

\* logToCloudWatch: the entry it was given, the remote calls it makes with
\* the client's answer (err), the lines it prints and what it raises in its
\* caller: no error (the function returns nothing), or the panic of the
\* client
logToCloudWatch(l, ctx, entry, clientErr) ==
    IF MarshalEntryFails(entry)
    THEN [entry |-> entry, puts |-> <<>>, raised |-> NilErr,
          out |-> <<LineMarshalEntry>>]
    ELSE LET r == putMetricData(l, ctx, entry, clientErr)
         IN  IF ~r.sent
             THEN [entry |-> entry, puts |-> <<>>, raised |-> r.panic,
                   out |-> <<>>]
             ELSE [entry |-> entry,
                   puts |-> <<[request |-> r.request, failed |-> ~r.err.isNil,
                               err |-> r.err]>>,
                   raised |-> NilErr,
                   out |-> (IF ~r.err.isNil THEN <<LineMetric(r.err)>>
                            ELSE <<>>)
                           \o <<MarshalEntry(entry)>>]

\* the level each severity method of a sink stamps on its entry
LevelOfMethod(method) ==
    CASE method = "Debug" -> DEBUG
      [] method = "Info" -> INFO
      [] method = "Warn" -> WARN
      [] method = "Error" -> ERROR
      [] method = "Fatal" -> FATAL

\* CloudWatchLogger.Debug/Info/Warn/Error/Fatal; Debug, Info and Warn pass a
\* nil error to createLogEntry
CloudWatchLogger_Log(l, method, now, ctx, message, err, metadata, clientErr) ==
    logToCloudWatch(l, ctx,
        CloudWatchLogger_createLogEntry(l, now, ctx, LevelOfMethod(method),
            message, IF method \in ErrMethods THEN err ELSE NilErr, metadata),
        clientErr)

(***************************************************************************)
(* db_logger.go: the database sink (DBLogger).                             *)
(***************************************************************************)
NewDBLogger(serviceName, tableName) ==
    [kind |-> "db", serviceName |-> serviceName, namespace |-> "",
     tableName |-> tableName]

\* db.ExecContext reads ctx.Done() before it takes a connection, which
\* panics on a nil context
PanicNilContext ==
    Panic("runtime error: invalid memory address or nil pointer dereference")

\* an ensureLogTable whose statement is CREATE TABLE without IF NOT EXISTS
ensureLogTable_PlainCreate(l, ctx, existing, execErr) ==
    IF ctx.isNil THEN [created |-> {}, err |-> PanicNilContext]
    ELSE IF ~execErr.isNil THEN [created |-> {}, err |-> execErr]
    ELSE IF l.tableName \in existing
    THEN [created |-> {},
          err |-> ErrOf("pq: relation " \o Quote(l.tableName)
                        \o " already exists")]
    ELSE [created |-> {l.tableName}, err |-> NilErr]

\* an ensureLogTable that runs its statement until it fails once and then
\* keeps returning that failure
ensureLogTable_RemembersFailure(l, ctx, existing, execErr) ==
    IF ctx.isNil THEN [created |-> {}, err |-> PanicNilContext]
    ELSE IF \E j \in 1..Len(stdout) : stdout[j] = LineEnsure(ErrOf("pq: connection refused"))
    THEN [created |-> {}, err |-> ErrOf("pq: connection refused")]
    ELSE [created |-> IF execErr.isNil THEN {l.tableName} \ existing ELSE {},
          err |-> execErr]

\* ensureLogTable: CREATE TABLE IF NOT EXISTS; the tables the statement adds
\* and the error returned (the driver's), or the panic of ExecContext
ensureLogTable(l, ctx, existing, execErr) ==
    IF ctx.isNil THEN [created |-> {}, err |-> PanicNilContext]
    ELSE [created |-> IF execErr.isNil THEN {l.tableName} \ existing ELSE {},
          err |-> execErr]

\* a Go string bound to a text parameter is stored as that text, never as NULL
SQLText(s) == [isNull |-> FALSE, text |-> s]

\* the parameters $1..$11 of the INSERT, as the row they store
InsertRow(entry, metadataJSON, errorMessage) ==
    [timestamp |-> entry.Timestamp,
     level |-> entry.Level,
     message |-> entry.Message,
     service_name |-> entry.ServiceName,
     request_id |-> entry.RequestID,
     user_id |-> entry.UserID,
     action |-> entry.Action,
     resource |-> entry.Resource,
     resource_id |-> entry.ResourceID,
     metadata |-> metadataJSON,
     error_message |-> SQLText(errorMessage)]

\* the []byte bound to $10: the variable metadataJSON is handed to ExecContext
\* as a []byte inside an interface value, which is not the nil interface even
\* when the slice is nil, so the driver (lib/pq, go.mod) sends its bytes as
\* text: a nil slice goes out as the empty text, never as NULL
BindBytes(b) == SQLText(b.text)

\* the input function of the JSONB column metadata: NULL and JSON texts are
\* stored, the empty text is "invalid input syntax for type json"
JSONBAccepts(param) == param.isNull \/ param.text # ""

ErrInvalidJSON == ErrOf("pq: invalid input syntax for type json")

\* the error l.db.ExecContext returns for the INSERT: the one the connection
\* gave (insertErr), or the one the server gives for parameter $10
ExecInsert(metadataJSON, insertErr) ==
    IF ~insertErr.isNil THEN insertErr
    ELSE IF ~JSONBAccepts(BindBytes(metadataJSON)) THEN ErrInvalidJSON
    ELSE NilErr

\* logToDB reaches its INSERT: the metadata of the entry, if any, was
\* serialized
InsertRuns(entry) ==
    entry.Metadata.isNil \/ ~MarshalMapFails(entry.Metadata)

\* "Get error message if error is not nil"
ErrorMessage(entry) == IF ~entry.Error.isNil THEN entry.Error.msg ELSE ""

\* a logToDB that hands the insert error back to its caller
logToDB_ReturnsInsertError(l, ctx, entry, existing, ensureErr, insertErr) ==
    LET e == ensureLogTable(l, ctx, existing, ensureErr)
    IN  IF e.err = PanicNilContext
        THEN [entry |-> entry, created |-> {}, rows |-> <<>>,
              raised |-> e.err, out |-> <<>>]
        ELSE IF ~e.err.isNil
        THEN [entry |-> entry, created |-> e.created, rows |-> <<>>,
              raised |-> NilErr, out |-> <<LineEnsure(e.err)>>]
        ELSE IF ~entry.Metadata.isNil /\ MarshalMapFails(entry.Metadata)
        THEN [entry |-> entry, created |-> e.created, rows |-> <<>>,
              raised |-> NilErr, out |-> <<LineMarshalMetadata>>]
        ELSE LET metadataJSON == IF ~entry.Metadata.isNil
                                 THEN Bytes(MarshalMap(entry.Metadata))
                                 ELSE NilBytes
                 row == InsertRow(entry, metadataJSON, ErrorMessage(entry))
                 execErr == ExecInsert(metadataJSON, insertErr)
             IN  IF ~execErr.isNil
                 THEN [entry |-> entry, created |-> e.created, rows |-> <<>>,
                       raised |-> execErr, out |-> <<LineInsert(execErr)>>]
                 ELSE [entry |-> entry, created |-> e.created,
                       rows |-> <<row>>, raised |-> NilErr, out |-> <<>>]

\* logToDB: the entry it was given, the tables created, the rows inserted, the
\* lines printed and what it raises in its caller: no error (the function
\* returns nothing), or the panic of ExecContext
logToDB(l, ctx, entry, existing, ensureErr, insertErr) ==
    LET e == ensureLogTable(l, ctx, existing, ensureErr)
    IN  IF e.err = PanicNilContext
        THEN [entry |-> entry, created |-> {}, rows |-> <<>>,
              raised |-> e.err, out |-> <<>>]
        ELSE IF ~e.err.isNil
        THEN [entry |-> entry, created |-> e.created, rows |-> <<>>,
              raised |-> NilErr, out |-> <<LineEnsure(e.err)>>]
        ELSE IF ~entry.Metadata.isNil /\ MarshalMapFails(entry.Metadata)
        THEN [entry |-> entry, created |-> e.created, rows |-> <<>>,
              raised |-> NilErr, out |-> <<LineMarshalMetadata>>]
        ELSE LET metadataJSON == IF ~entry.Metadata.isNil
                                 THEN Bytes(MarshalMap(entry.Metadata))
                                 ELSE NilBytes
                 row == InsertRow(entry, metadataJSON, ErrorMessage(entry))
                 execErr == ExecInsert(metadataJSON, insertErr)
             IN  IF ~execErr.isNil
                 THEN [entry |-> entry, created |-> e.created, rows |-> <<>>,
                       raised |-> NilErr, out |-> <<LineInsert(execErr)>>]
                 ELSE [entry |-> entry, created |-> e.created,
                       rows |-> <<row>>, raised |-> NilErr, out |-> <<>>]

\* DBLogger.Debug/Info/Warn/Error/Fatal
DBLogger_Log(l, method, now, ctx, message, err, metadata, existing, ensureErr, insertErr) ==
    logToDB(l, ctx,
        DBLogger_createLogEntry(l, now, ctx, LevelOfMethod(method),
            message, IF method \in ErrMethods THEN err ELSE NilErr, metadata),
        existing, ensureErr, insertErr)

(***************************************************************************)
(* logger.go: the composite logger.                                        *)
(***************************************************************************)
NewCompositeLogger(sinks) == sinks

\* a loop that ends when a metrics sink printed a failure before its JSON line
CompositeNext_StopOnFailure(sinks, i, eff) ==
    IF Len(eff.out) = 2 THEN Len(sinks) + 1 ELSE i + 1

\* the range loop of CompositeLogger.Debug/Info/Warn/Error/Fatal: after the
\* call on loggers[i] comes loggers[i+1], whatever the call did (eff)
CompositeNext(sinks, i, eff) == i + 1

(***************************************************************************)
(* cmd/users/main.go: the sinks of the process-wide logger.                *)
(***************************************************************************)
ServiceName == "site-geav-api"
cloudWatchLogger == NewCloudWatchLogger(ServiceName, "SiteGeav/API")
dbLogger == NewDBLogger(ServiceName, "api_logs")
\* log = logger.NewCompositeLogger(cloudWatchLogger, dbLogger)
MainLoggers == NewCompositeLogger(<<cloudWatchLogger, dbLogger>>)

(***************************************************************************)
(* An APIGatewayProxyRequest and the response of a handler.                *)
(***************************************************************************)
\* the fields of the request the router and the handlers read; principal is
\* the user id the authorizer attached to the request, 0 for none
Request(method, resource, headers, id, body, principal) ==
    [HTTPMethod |-> method, Resource |-> resource, Headers |-> headers,
     PathParameters |-> MapOf({KV("id", StrVal(id))}), Body |-> body,
     principal |-> principal]

\* a request on a resource under another: the path holds the two ids
SubRequest(method, resource, id, key, subID, body) ==
    [HTTPMethod |-> method, Resource |-> resource, Headers |-> MapOf({}),
     PathParameters |-> MapOf({KV("id", StrVal(id)), KV(key, StrVal(subID))}),
     Body |-> body, principal |-> 0]

\* user_handler.go: createJSONResponse, given the text json.Marshal produced
createJSONResponse(statusCode, jsonBody) ==
    [StatusCode |-> statusCode,
     Headers |-> MapOf({KV("Content-Type", StrVal("application/json"))}),
     Body |-> jsonBody, err |-> NilErr]

\* json.Marshal(map[string]string{"error": message})
createErrorResponse(statusCode, message) ==
    createJSONResponse(statusCode,
        "{" \o Quote("error") \o ":" \o Quote(message) \o "}")

\* what the Lambda runtime answers when the handler did not return
FunctionError(err) ==
    [StatusCode |-> 0, Headers |-> NilMap, Body |-> "", err |-> err]

\* one call of a severity method, as a handler makes it
LogCall(method, message, err, metadata) ==
    [method |-> method, message |-> message, err |-> err,
     metadata |-> <<metadata>>]

\* strconv.Atoi on the path parameters drawn here
AtoiValue ==
    [s \in {ToString(n) : n \in {1, 2, 3, 7, 42}} |->
        CHOOSE n \in {1, 2, 3, 7, 42} : ToString(n) = s]
Atoi(s) ==
    IF s \in DOMAIN AtoiValue
    THEN [n |-> AtoiValue[s], err |-> NilErr]
    ELSE [n |-> 0,
          err |-> ErrOf("strconv.Atoi: parsing " \o Quote(s)
                        \o ": invalid syntax")]

(***************************************************************************)
(* The tables of the application, as the repositories read and write them. *)
(* The connection answers each statement with success or with an error;    *)
(* a failed statement changes nothing.                                     *)
(***************************************************************************)
User(id, username, password, role, createdAt) ==
    [ID |-> id, Username |-> username, Password |-> password, Role |-> role,
     CreatedAt |-> createdAt, UpdatedAt |-> createdAt]

LugarImage(id, lugarID, imageURL, createdAt) ==
    [ID |-> id, LugarID |-> lugarID, ImageURL |-> imageURL,
     DisplayOrder |-> 0, CreatedAt |-> createdAt]

\* a models.LugarRating
LugarRating(id, lugarID, userID, rating, date) ==
    [ID |-> id, LugarID |-> lugarID, UserID |-> userID, Rating |-> rating,
     Date |-> date]

\* a tag or a ramo: models.TagLugar, models.TagCancao, models.Ramo
Tag(id, name) == [ID |-> id, Name |-> name, CreatedAt |-> 0]

\* a models.Lugar: the fields the handlers read or set; the others keep
\* their zero values
Lugar(id, nomeLocal, createdAt, images) ==
    [ID |-> id, NomeLocal |-> nomeLocal, UserID |-> 0,
     CreatedAt |-> createdAt, UpdatedAt |-> createdAt, Images |-> images,
     Tags |-> <<>>, Ramos |-> <<>>, AverageRating |-> 0, RatingCount |-> 0]

\* a models.Cancao, likewise
Cancao(id, nome, createdAt) ==
    [ID |-> id, Nome |-> nome, UserID |-> 0, CreatedAt |-> createdAt,
     UpdatedAt |-> createdAt, Tags |-> <<>>, Ramos |-> <<>>]

\* a row of lugares, and one of cancoes
LugarRow(id, nomeLocal, userID, createdAt, updatedAt) ==
    [ID |-> id, NomeLocal |-> nomeLocal, UserID |-> userID,
     CreatedAt |-> createdAt, UpdatedAt |-> updatedAt]
CancaoRow(id, nome, userID, createdAt, updatedAt) ==
    [ID |-> id, Nome |-> nome, UserID |-> userID, CreatedAt |-> createdAt,
     UpdatedAt |-> updatedAt]

\* a row of one of the junction tables lugares_tags, lugares_ramos,
\* cancoes_tags and cancoes_ramos
Link(table, owner, id) == [table |-> table, owner |-> owner, id |-> id]

\* init-db.sql: the rows of tags_lugares, tags_cancoes and ramos the
\* requests of this model name
TagName ==
    [table \in {"lugares_tags", "cancoes_tags", "lugares_ramos",
                "cancoes_ramos"} |->
        IF table = "lugares_tags" THEN <<"rio", "lago">>
        ELSE IF table = "cancoes_tags" THEN <<"hino", "viagem">>
        ELSE <<"filhotes", "lobinho">>]

StoredUsers == {User(42, "ana", "segredo", "read", 0)}

\* a database some invocations have already written to: two places of user
\* 42, an image and a rating of the first place, a song, and the last value
\* each id sequence gave
InitialStore ==
    [users |-> StoredUsers,
     lugares |-> {LugarRow(1, "Base", 42, 0, 0), LugarRow(2, "Campo", 42, 0, 0)},
     images |-> {LugarImage(1, 1, "base.png", 0)},
     ratings |-> {LugarRating(1, 1, 42, 4, 0)},
     cancoes |-> {CancaoRow(1, "Hino", 42, 0, 0)},
     links |-> {Link("lugares_tags", 1, 1), Link("cancoes_ramos", 1, 2)},
     seq |-> [users |-> 42, lugares |-> 2, images |-> 1, ratings |-> 1,
              cancoes |-> 1]]

\* ORDER BY id
RECURSIVE OrderByID(_)
OrderByID(S) ==
    IF S = {} THEN <<>>
    ELSE LET m == CHOOSE x \in S : \A y \in S : x.ID <= y.ID
         IN  <<m>> \o OrderByID(S \ {m})

\* ORDER BY a column that is no key: the rows by key[row], and the rows
\* with one key in the order the database happens to give them, which is
\* one order for all ("asc") or the other ("desc")
RECURSIVE OrderBy(_, _, _)
OrderBy(S, key, ties) ==
    IF S = {} THEN <<>>
    ELSE LET m == CHOOSE x \in S : \A y \in S \ {x} :
                      \/ key[x] < key[y]
                      \/ /\ key[x] = key[y]
                         /\ IF ties = "asc" THEN x.ID < y.ID ELSE x.ID > y.ID
         IN  <<m>> \o OrderBy(S \ {m}, key, ties)

\* a step of a handler: a statement it sends to the database, with the
\* tables as the statement leaves them, or a call of a severity method of
\* the logger
Statement(st) == [db |-> <<st>>, log |-> <<>>]
Log(method, message, err, metadata) ==
    [db |-> <<>>, log |-> <<LogCall(method, message, err, metadata)>>]

\* the statements of a repository method that wrote, and of n reads
Stmt(res) == <<Statement(res.store)>>
Reads(st, n) == [i \in 1..n |-> Statement(st)]

\* the calls of the logger among the steps, in order
CallsIn(steps) ==
    LET logs == SelectSeq(steps, LAMBDA s : s.log # <<>>)
    IN  [i \in 1..Len(logs) |-> logs[i].log[1]]

\* the tables after the steps, begun on the tables st
StoreAfter(steps, st) ==
    LET dbs == SelectSeq(steps, LAMBDA s : s.db # <<>>)
    IN  IF dbs = <<>> THEN st ELSE dbs[Len(dbs)].db[1]

\* what a handler entered on the tables st did: its steps in order, the
\* severity methods it called, the response it returned and the tables it
\* left
Plan(steps, resp, st) ==
    [steps |-> steps, calls |-> CallsIn(steps), resp |-> resp,
     store |-> StoreAfter(steps, st)]

\* what PostgreSQL answers to a row that breaks a constraint
ErrUnique(constraint) ==
    ErrOf("pq: duplicate key value violates unique constraint "
          \o Quote(constraint))
ErrForeignKey(table, constraint) ==
    ErrOf("pq: insert or update on table " \o Quote(table)
          \o " violates foreign key constraint " \o Quote(constraint))
ErrCheck(table, constraint) ==
    ErrOf("pq: new row for relation " \o Quote(table)
          \o " violates check constraint " \o Quote(constraint))

\* the metadata maps of the handlers
Meta(action, resource) ==
    MapOf({KV("action", StrVal(action)), KV("resource", StrVal(resource))})
MetaID(action, resource, id) ==
    MapOf({KV("action", StrVal(action)), KV("resource", StrVal(resource)),
           KV("resource_id", StrVal(ToString(id)))})
\* the map m with one more key
With(m, key, val) == MapOf(m.kv \cup {KV(key, val)})

\* the response of the handlers that return no body
NoContentResponse ==
    [StatusCode |-> 204,
     Headers |-> MapOf({KV("Content-Type", StrVal("application/json"))}),
     Body |-> "", err |-> NilErr]

\* json.Marshal of a slice whose elements marshal to the texts given: a nil
\* slice gives null
RECURSIVE JoinTexts(_, _)
JoinTexts(texts, i) ==
    IF i > Len(texts) THEN ""
    ELSE (IF i = 1 THEN "" ELSE ",") \o texts[i] \o JoinTexts(texts, i + 1)
MarshalSlice(texts) ==
    IF Len(texts) = 0 THEN "null" ELSE "[" \o JoinTexts(texts, 1) \o "]"

\* the error json.Unmarshal gives on a truncated body
ErrTruncatedJSON == ErrOf("unexpected end of JSON input")

(***************************************************************************)
(* models/user.go, user_repository.go and user_handler.go.                 *)
(***************************************************************************)
\* a user record that shows its password
MarshalUser_WithPassword(u) ==
    "{" \o Quote("id") \o ":" \o ToString(u.ID)
    \o "," \o Quote("username") \o ":" \o Quote(u.Username)
    \o "," \o Quote("password") \o ":" \o Quote(u.Password)
    \o "," \o Quote("role") \o ":" \o Quote(u.Role)
    \o "," \o Quote("created_at") \o ":" \o ToString(u.CreatedAt)
    \o "," \o Quote("updated_at") \o ":" \o ToString(u.UpdatedAt)
    \o "}"

\* json.Marshal(user): Password is tagged "-"
MarshalUser(u) ==
    "{" \o Quote("id") \o ":" \o ToString(u.ID)
    \o "," \o Quote("username") \o ":" \o Quote(u.Username)
    \o "," \o Quote("role") \o ":" \o Quote(u.Role)
    \o "," \o Quote("created_at") \o ":" \o ToString(u.CreatedAt)
    \o "," \o Quote("updated_at") \o ":" \o ToString(u.UpdatedAt)
    \o "}"

\* a request body for a user
UserBody(username, password, role) ==
    "{" \o Quote("username") \o ":" \o Quote(username)
    \o "," \o Quote("password") \o ":" \o Quote(password)
    \o "," \o Quote("role") \o ":" \o Quote(role) \o "}"

\* the user bodies drawn: each field empty or not, a role of the system or
\* another
UserFields == {"", "bia"} \X {"", "senha"} \X {"", "write", "admin"}

\* json.Unmarshal([]byte(request.Body), &user) on the bodies drawn here: the
\* field Password is tagged "-", so the decoder never sets it
UnmarshalUser(body) ==
    IF body = "{}"
    THEN [user |-> User(0, "", "", "", 0), err |-> NilErr]
    ELSE IF \E x \in UserFields : body = UserBody(x[1], x[2], x[3])
    THEN LET x == CHOOSE y \in UserFields : body = UserBody(y[1], y[2], y[3])
         IN  [user |-> User(0, x[1], "", x[3], 0), err |-> NilErr]
    ELSE [user |-> User(0, "", "", "", 0), err |-> ErrTruncatedJSON]

\* models.IsValidRole
IsValidRole(role) == role = "read" \/ role = "write"

\* PostgresUserRepository.GetByID over the stored users, with the error the
\* connection gave: (user, nil), or (nil, error); sql.ErrNoRows becomes an
\* error too
UserRepo_GetByID(users, id, dbErr) ==
    IF ~dbErr.isNil
    THEN [found |-> FALSE, user |-> User(0, "", "", "", 0),
          err |-> ErrOf("error getting user by ID: " \o dbErr.msg)]
    ELSE IF \E u \in users : u.ID = id
    THEN [found |-> TRUE, user |-> CHOOSE u \in users : u.ID = id,
          err |-> NilErr]
    ELSE [found |-> FALSE, user |-> User(0, "", "", "", 0),
          err |-> ErrOf("user with ID " \o ToString(id) \o " not found")]

\* PostgresUserRepository.List
UserRepo_List(users, dbErr) ==
    IF ~dbErr.isNil
    THEN [users |-> <<>>, err |-> ErrOf("error listing users: " \o dbErr.msg)]
    ELSE [users |-> OrderByID(users), err |-> NilErr]

\* PostgresUserRepository.Create: the INSERT draws the id from users_id_seq,
\* then meets CHECK (role IN ('read', 'write')) and the UNIQUE of username;
\* a refused row keeps the value it drew
UserRepo_Create(st, user, dbErr) ==
    LET drawn == [st EXCEPT !.seq.users = @ + 1]
    IN  IF ~dbErr.isNil
        THEN [id |-> 0, err |-> ErrOf("error creating user: " \o dbErr.msg),
              store |-> st]
        ELSE IF user.Role \notin {"read", "write"}
        THEN [id |-> 0,
              err |-> ErrOf("error creating user: "
                            \o ErrCheck("users", "users_role_check").msg),
              store |-> drawn]
        ELSE IF \E u \in st.users : u.Username = user.Username
        THEN [id |-> 0,
              err |-> ErrOf("error creating user: "
                            \o ErrUnique("users_username_key").msg),
              store |-> drawn]
        ELSE [id |-> drawn.seq.users, err |-> NilErr,
              store |-> [drawn EXCEPT
                           !.users = @ \cup {[user EXCEPT
                                                !.ID = drawn.seq.users]}]]

\* PostgresUserRepository.Update: the UPDATE names the columns username,
\* password, role and updated_at of the row WHERE id = user.ID; no row, or
\* a row that then breaks the CHECK of role or the UNIQUE of username
UserRepo_Update(st, user, dbErr) ==
    IF ~dbErr.isNil
    THEN [err |-> ErrOf("error updating user: " \o dbErr.msg), store |-> st]
    ELSE IF ~\E u \in st.users : u.ID = user.ID
    THEN [err |-> ErrOf("user with ID " \o ToString(user.ID) \o " not found"),
          store |-> st]
    ELSE IF user.Role \notin {"read", "write"}
    THEN [err |-> ErrOf("error updating user: "
                        \o ErrCheck("users", "users_role_check").msg),
          store |-> st]
    ELSE IF \E u \in st.users : u.ID # user.ID /\ u.Username = user.Username
    THEN [err |-> ErrOf("error updating user: "
                        \o ErrUnique("users_username_key").msg),
          store |-> st]
    ELSE [err |-> NilErr,
          store |-> [st EXCEPT !.users =
                       {IF u.ID = user.ID
                        THEN [u EXCEPT !.Username = user.Username,
                                       !.Password = user.Password,
                                       !.Role = user.Role,
                                       !.UpdatedAt = user.UpdatedAt]
                        ELSE u : u \in @}]]

\* the rows that go with a place: ON DELETE CASCADE
WithoutLugares(st, ids) ==
    [st EXCEPT !.lugares = {l \in @ : l.ID \notin ids},
               !.images = {im \in @ : im.LugarID \notin ids},
               !.ratings = {r \in @ : r.LugarID \notin ids},
               !.links = {k \in @ : ~(/\ k.table \in {"lugares_tags",
                                                       "lugares_ramos"}
                                      /\ k.owner \in ids)}]
WithoutCancoes(st, ids) ==
    [st EXCEPT !.cancoes = {c \in @ : c.ID \notin ids},
               !.links = {k \in @ : ~(/\ k.table \in {"cancoes_tags",
                                                       "cancoes_ramos"}
                                      /\ k.owner \in ids)}]

\* PostgresUserRepository.Delete; the places, songs and ratings of the user
\* go with it
UserRepo_Delete(st, id, dbErr) ==
    IF ~dbErr.isNil
    THEN [err |-> ErrOf("error deleting user: " \o dbErr.msg), store |-> st]
    ELSE IF ~\E u \in st.users : u.ID = id
    THEN [err |-> ErrOf("user with ID " \o ToString(id) \o " not found"),
          store |-> st]
    ELSE LET s1 == WithoutLugares(st, {l.ID : l \in {x \in st.lugares :
                                                       x.UserID = id}})
             s2 == WithoutCancoes(s1, {c.ID : c \in {x \in st.cancoes :
                                                       x.UserID = id}})
         IN  [err |-> NilErr,
              store |-> [s2 EXCEPT !.users = {u \in @ : u.ID # id},
                                   !.ratings = {r \in @ : r.UserID # id}]]

UserMeta(action) == Meta(action, "users")
UserMetaID(action, id) == MetaID(action, "users", id)

\* UserHandler.GetUser: its steps, in order, and the response it returns
GetUser(request, st, dbErr) ==
    LET a == Atoi(AsString(request.PathParameters, "id"))
        r == UserRepo_GetByID(st.users, a.n, dbErr)
    IN  IF ~a.err.isNil
        THEN Plan(<<Log("Error", "Invalid user ID", a.err,
                        UserMeta("GetUser"))>>,
                  createErrorResponse(400, "Invalid user ID"), st)
        ELSE IF ~r.err.isNil
        THEN Plan(Reads(st, 1)
                  \o <<Log("Error", "Error getting user", r.err,
                           UserMetaID("GetUser", a.n))>>,
                  createErrorResponse(500, "Error getting user"), st)
        ELSE IF ~r.found
        THEN Plan(Reads(st, 1)
                  \o <<Log("Warn", "User not found", NilErr,
                           UserMetaID("GetUser", a.n))>>,
                  createErrorResponse(404, "User not found"), st)
        ELSE Plan(Reads(st, 1)
                  \o <<Log("Info", "User retrieved successfully", NilErr,
                           UserMetaID("GetUser", a.n))>>,
                  createJSONResponse(200, MarshalUser(r.user)), st)

\* UserHandler.ListUsers
ListUsers(st, dbErr) ==
    LET r == UserRepo_List(st.users, dbErr)
    IN  IF ~r.err.isNil
        THEN Plan(Reads(st, 1)
                  \o <<Log("Error", "Error listing users", r.err,
                           UserMeta("ListUsers"))>>,
                  createErrorResponse(500, "Error listing users"), st)
        ELSE Plan(Reads(st, 1)
                  \o <<Log("Info", "Users listed successfully", NilErr,
                           With(UserMeta("ListUsers"), "count",
                                IntVal(Len(r.users))))>>,
                  createJSONResponse(200,
                      MarshalSlice([i \in 1..Len(r.users) |->
                                       MarshalUser(r.users[i])])),
                  st)

\* UserHandler.CreateUser
CreateUser(request, st, now, createErr) ==
    LET u == UnmarshalUser(request.Body)
        user == [u.user EXCEPT !.CreatedAt = now, !.UpdatedAt = now]
        c == UserRepo_Create(st, user, createErr)
    IN  IF ~u.err.isNil
        THEN Plan(<<Log("Error", "Invalid request body", u.err,
                        UserMeta("CreateUser"))>>,
                  createErrorResponse(400, "Invalid request body"), st)
        ELSE IF \/ user.Username = ""
                \/ user.Password = ""
                \/ ~IsValidRole(user.Role)
        THEN Plan(<<Log("Warn", "Invalid user data", NilErr,
                        UserMeta("CreateUser"))>>,
                  createErrorResponse(400, "Invalid user data"), st)
        ELSE IF ~c.err.isNil
        THEN Plan(Stmt(c)
                  \o <<Log("Error", "Error creating user", c.err,
                           UserMeta("CreateUser"))>>,
                  createErrorResponse(500, "Error creating user"), st)
        ELSE Plan(Stmt(c)
                  \o <<Log("Info", "User created successfully", NilErr,
                           UserMetaID("CreateUser", c.id))>>,
                  createJSONResponse(201,
                      MarshalUser([user EXCEPT !.ID = c.id])),
                  st)

\* UserHandler.UpdateUser
UpdateUser(request, st, now, dbErr, updateErr) ==
    LET a == Atoi(AsString(request.PathParameters, "id"))
        r == UserRepo_GetByID(st.users, a.n, dbErr)
        u == UnmarshalUser(request.Body)
        existingUser == [r.user EXCEPT !.Username = u.user.Username,
                                       !.Password = u.user.Password,
                                       !.Role = u.user.Role,
                                       !.UpdatedAt = now]
        w == UserRepo_Update(st, existingUser, updateErr)
        meta == UserMetaID("UpdateUser", a.n)
    IN  IF ~a.err.isNil
        THEN Plan(<<Log("Error", "Invalid user ID", a.err,
                        UserMeta("UpdateUser"))>>,
                  createErrorResponse(400, "Invalid user ID"), st)
        ELSE IF ~r.err.isNil
        THEN Plan(Reads(st, 1)
                  \o <<Log("Error", "Error getting user", r.err, meta)>>,
                  createErrorResponse(500, "Error getting user"), st)
        ELSE IF ~r.found
        THEN Plan(Reads(st, 1)
                  \o <<Log("Warn", "User not found", NilErr, meta)>>,
                  createErrorResponse(404, "User not found"), st)
        ELSE IF ~u.err.isNil
        THEN Plan(Reads(st, 1)
                  \o <<Log("Error", "Invalid request body", u.err, meta)>>,
                  createErrorResponse(400, "Invalid request body"), st)
        ELSE IF \/ u.user.Username = ""
                \/ u.user.Password = ""
                \/ ~IsValidRole(u.user.Role)
        THEN Plan(Reads(st, 1)
                  \o <<Log("Warn", "Invalid user data", NilErr, meta)>>,
                  createErrorResponse(400, "Invalid user data"), st)
        ELSE IF ~w.err.isNil
        THEN Plan(Reads(st, 1) \o Stmt(w)
                  \o <<Log("Error", "Error updating user", w.err, meta)>>,
                  createErrorResponse(500, "Error updating user"), st)
        ELSE Plan(Reads(st, 1) \o Stmt(w)
                  \o <<Log("Info", "User updated successfully", NilErr,
                           meta)>>,
                  createJSONResponse(200, MarshalUser(existingUser)), st)

\* a DeleteUser that rejects a malformed id without a word to the logger
DeleteUser_SilentBadID(request, st, deleteErr) ==
    LET a == Atoi(AsString(request.PathParameters, "id"))
        d == UserRepo_Delete(st, a.n, deleteErr)
    IN  IF ~a.err.isNil
        THEN Plan(<<>>, createErrorResponse(400, "Invalid user ID"), st)
        ELSE IF ~d.err.isNil
        THEN Plan(Stmt(d)
                  \o <<Log("Error", "Error deleting user", d.err,
                           UserMetaID("DeleteUser", a.n))>>,
                  createErrorResponse(500, "Error deleting user"), st)
        ELSE Plan(Stmt(d)
                  \o <<Log("Info", "User deleted successfully", NilErr,
                           UserMetaID("DeleteUser", a.n))>>,
                  NoContentResponse, st)

\* UserHandler.DeleteUser
DeleteUser(request, st, deleteErr) ==
    LET a == Atoi(AsString(request.PathParameters, "id"))
        d == UserRepo_Delete(st, a.n, deleteErr)
    IN  IF ~a.err.isNil
        THEN Plan(<<Log("Error", "Invalid user ID", a.err,
                        UserMeta("DeleteUser"))>>,
                  createErrorResponse(400, "Invalid user ID"), st)
        ELSE IF ~d.err.isNil
        THEN Plan(Stmt(d)
                  \o <<Log("Error", "Error deleting user", d.err,
                           UserMetaID("DeleteUser", a.n))>>,
                  createErrorResponse(500, "Error deleting user"), st)
        ELSE Plan(Stmt(d)
                  \o <<Log("Info", "User deleted successfully", NilErr,
                           UserMetaID("DeleteUser", a.n))>>,
                  NoContentResponse, st)

(***************************************************************************)
(* models/lugar.go and PostgresLugarRepository.                            *)
(***************************************************************************)
MarshalImage(im) ==
    "{" \o Quote("id") \o ":" \o ToString(im.ID)
    \o "," \o Quote("lugar_id") \o ":" \o ToString(im.LugarID)
    \o "," \o Quote("image_url") \o ":" \o Quote(im.ImageURL)
    \o "," \o Quote("display_order") \o ":" \o ToString(im.DisplayOrder)
    \o "," \o Quote("created_at") \o ":" \o ToString(im.CreatedAt)
    \o "}"

RECURSIVE MarshalImages(_, _)
MarshalImages(images, i) ==
    IF i > Len(images) THEN ""
    ELSE (IF i = 1 THEN "" ELSE ",") \o MarshalImage(images[i])
         \o MarshalImages(images, i + 1)

MarshalTag(t) ==
    "{" \o Quote("id") \o ":" \o ToString(t.ID)
    \o "," \o Quote("name") \o ":" \o Quote(t.Name)
    \o "," \o Quote("created_at") \o ":" \o ToString(t.CreatedAt)
    \o "}"

MarshalTags(tags) == JoinTexts([i \in 1..Len(tags) |-> MarshalTag(tags[i])], 1)

MarshalRating(r) ==
    "{" \o Quote("id") \o ":" \o ToString(r.ID)
    \o "," \o Quote("lugar_id") \o ":" \o ToString(r.LugarID)
    \o "," \o Quote("user_id") \o ":" \o ToString(r.UserID)
    \o "," \o Quote("rating") \o ":" \o ToString(r.Rating)
    \o "," \o Quote("date") \o ":" \o ToString(r.Date)
    \o "}"

\* json.Marshal(lugar): images, tags and ramos are omitted when empty, and so
\* are the two rating fields when zero
MarshalLugar(lg) ==
    "{" \o Quote("id") \o ":" \o ToString(lg.ID)
    \o "," \o Quote("nome_local") \o ":" \o Quote(lg.NomeLocal)
    \o "," \o Quote("nome_dono_local") \o ":" \o Quote("")
    \o "," \o Quote("telefone_para_contato") \o ":0"
    \o "," \o Quote("link_google_maps") \o ":" \o Quote("")
    \o "," \o Quote("link_site") \o ":" \o Quote("")
    \o "," \o Quote("endereco_completo") \o ":" \o Quote("")
    \o "," \o Quote("local_publico") \o ":false"
    \o "," \o Quote("valor_fixo") \o ":0"
    \o "," \o Quote("valor_individual") \o ":0"
    \o "," \o Quote("user_id") \o ":" \o ToString(lg.UserID)
    \o "," \o Quote("created_at") \o ":" \o ToString(lg.CreatedAt)
    \o "," \o Quote("updated_at") \o ":" \o ToString(lg.UpdatedAt)
    \o (IF Len(lg.Images) = 0 THEN ""
        ELSE "," \o Quote("images") \o ":[" \o MarshalImages(lg.Images, 1)
             \o "]")
    \o (IF Len(lg.Tags) = 0 THEN ""
        ELSE "," \o Quote("tags") \o ":[" \o MarshalTags(lg.Tags) \o "]")
    \o (IF Len(lg.Ramos) = 0 THEN ""
        ELSE "," \o Quote("ramos") \o ":[" \o MarshalTags(lg.Ramos) \o "]")
    \o (IF lg.AverageRating = 0 THEN ""
        ELSE "," \o Quote("average_rating") \o ":"
             \o ToString(lg.AverageRating))
    \o (IF lg.RatingCount = 0 THEN ""
        ELSE "," \o Quote("rating_count") \o ":" \o ToString(lg.RatingCount))
    \o "}"

\* the images, and the tags or ramos, of a request body: image i is
\* img<i>.png, tag i and ramo i are named by their id alone
RECURSIVE ImageBodies(_, _)
ImageBodies(k, i) ==
    IF i > k THEN ""
    ELSE (IF i = 1 THEN "" ELSE ",")
         \o "{" \o Quote("image_url") \o ":"
         \o Quote("img" \o ToString(i) \o ".png") \o "}"
         \o ImageBodies(k, i + 1)

RECURSIVE TagBodies(_, _)
TagBodies(k, i) ==
    IF i > k THEN ""
    ELSE (IF i = 1 THEN "" ELSE ",")
         \o "{" \o Quote("id") \o ":" \o ToString(i) \o "}"
         \o TagBodies(k, i + 1)

\* a request body for a place: id, created_at and user_id are left out when
\* zero, and so are the lists when empty
LugarBodyWith(id, createdAt, userID, nomeLocal, k, t, r) ==
    "{"
    \o (IF id = 0 THEN "" ELSE Quote("id") \o ":" \o ToString(id) \o ",")
    \o Quote("nome_local") \o ":" \o Quote(nomeLocal)
    \o (IF userID = 0 THEN ""
        ELSE "," \o Quote("user_id") \o ":" \o ToString(userID))
    \o (IF createdAt = 0 THEN ""
        ELSE "," \o Quote("created_at") \o ":" \o ToString(createdAt))
    \o (IF k = 0 THEN ""
        ELSE "," \o Quote("images") \o ":[" \o ImageBodies(k, 1) \o "]")
    \o (IF t = 0 THEN ""
        ELSE "," \o Quote("tags") \o ":[" \o TagBodies(t, 1) \o "]")
    \o (IF r = 0 THEN ""
        ELSE "," \o Quote("ramos") \o ":[" \o TagBodies(r, 1) \o "]")
    \o "}"

\* a body naming a place of user 42 and k images
LugarBody(nomeLocal, k) == LugarBodyWith(0, 0, 42, nomeLocal, k, 0, 0)

\* the fields of the bodies drawn: id, created_at, user_id, nome_local and
\* the numbers of images, tags and ramos
BodyFields ==
    {0, 2} \X {0, 5} \X {0, 42} \X {"Sede"} \X (0..MaxImages) \X (0..MaxTags)
    \X (0..MaxTags)

\* json.Unmarshal([]byte(request.Body), &lugar) on the bodies drawn here
UnmarshalLugar(body) ==
    IF body = "{}"
    THEN [lugar |-> Lugar(0, "", 0, <<>>), err |-> NilErr]
    ELSE IF \E x \in BodyFields :
               body = LugarBodyWith(x[1], x[2], x[3], x[4], x[5], x[6], x[7])
    THEN LET x == CHOOSE y \in BodyFields :
                     body = LugarBodyWith(y[1], y[2], y[3], y[4], y[5], y[6],
                                          y[7])
         IN  [lugar |->
                 [Lugar(x[1], x[4], x[2],
                        [i \in 1..x[5] |->
                            LugarImage(0, 0, "img" \o ToString(i) \o ".png",
                                       0)])
                  EXCEPT !.UserID = x[3], !.UpdatedAt = 0,
                         !.Tags = [i \in 1..x[6] |-> Tag(i, "")],
                         !.Ramos = [i \in 1..x[7] |-> Tag(i, "")]],
              err |-> NilErr]
    ELSE [lugar |-> Lugar(0, "", 0, <<>>), err |-> ErrTruncatedJSON]

\* the answer of the connection to the i-th statement a handler runs on one
\* table: statements beyond the answers given succeed
Answer(errs, i) == IF i \in DOMAIN errs THEN errs[i] ELSE NilErr

Wrap(prefix, err) == ErrOf(prefix \o ": " \o err.msg)

\* PostgresLugarRepository.GetImages: ORDER BY display_order
LugarRepo_GetImages(st, lugarID, dbErr, ties) ==
    LET images == {im \in st.images : im.LugarID = lugarID}
    IN  IF ~dbErr.isNil
        THEN [images |-> <<>>,
              err |-> Wrap("error getting images for lugar", dbErr)]
        ELSE [images |-> OrderBy(images,
                                 [im \in images |-> im.DisplayOrder], ties),
              err |-> NilErr]

\* the ids of the tags of each table, ORDER BY name
TagsByName ==
    [table \in DOMAIN TagName |->
        IF table = "lugares_tags" THEN <<2, 1>> ELSE <<1, 2>>]

\* the tags of a table a row owns, ORDER BY name: GetTags and GetRamos of
\* both repositories
LinkedTags(st, table, owner) ==
    LET ids == {k.id : k \in {x \in st.links :
                                 x.table = table /\ x.owner = owner}}
        order == SelectSeq(TagsByName[table], LAMBDA i : i \in ids)
    IN  [j \in 1..Len(order) |-> Tag(order[j], TagName[table][order[j]])]

LugarRepo_GetTags(st, lugarID, dbErr) ==
    IF ~dbErr.isNil
    THEN [tags |-> <<>>, err |-> Wrap("error getting tags for lugar", dbErr)]
    ELSE [tags |-> LinkedTags(st, "lugares_tags", lugarID), err |-> NilErr]

LugarRepo_GetRamos(st, lugarID, dbErr) ==
    IF ~dbErr.isNil
    THEN [tags |-> <<>>, err |-> Wrap("error getting ramos for lugar", dbErr)]
    ELSE [tags |-> LinkedTags(st, "lugares_ramos", lugarID), err |-> NilErr]

\* the row of lugares_with_ratings of a place: AVG(rating) and COUNT(id).
\* The averages of the databases of this model are whole numbers
RatingSum(rs) ==
    LET RECURSIVE Sum(_)
        Sum(S) == IF S = {} THEN 0
                  ELSE LET x == CHOOSE y \in S : TRUE
                       IN  x.Rating + Sum(S \ {x})
    IN  Sum(rs)

\* the models.Lugar a SELECT scans from a row, with its related entities,
\* and the statements that fetched them
ScanLugar(st, row, i, errs) ==
    LET images == LugarRepo_GetImages(st, row.ID, Answer(errs.images, i),
                                      errs.ties)
        tags == LugarRepo_GetTags(st, row.ID, Answer(errs.tags, i))
        ramos == LugarRepo_GetRamos(st, row.ID, Answer(errs.ramos, i))
        rs == {r \in st.ratings : r.LugarID = row.ID}
        lugar == [ID |-> row.ID, NomeLocal |-> row.NomeLocal,
                  UserID |-> row.UserID, CreatedAt |-> row.CreatedAt,
                  UpdatedAt |-> row.UpdatedAt, Images |-> images.images,
                  Tags |-> tags.tags, Ramos |-> ramos.tags,
                  AverageRating |-> IF rs = {} THEN 0
                                    ELSE RatingSum(rs) \div Cardinality(rs),
                  RatingCount |-> Cardinality(rs)]
    IN  IF ~images.err.isNil
        THEN [lugar |-> lugar, stmts |-> 1,
              err |-> Wrap("error getting images for lugar", images.err)]
        ELSE IF ~tags.err.isNil
        THEN [lugar |-> lugar, stmts |-> 2,
              err |-> Wrap("error getting tags for lugar", tags.err)]
        ELSE IF ~ramos.err.isNil
        THEN [lugar |-> lugar, stmts |-> 3,
              err |-> Wrap("error getting ramos for lugar", ramos.err)]
        ELSE [lugar |-> lugar, stmts |-> 3, err |-> NilErr]

\* a models.Lugar that was not scanned
NoLugar ==
    [Lugar(0, "", 0, <<>>) EXCEPT !.UpdatedAt = 0]

\* PostgresLugarRepository.GetByID: (lugar, nil), (nil, nil) when no row has
\* the id, or (nil, error), and the number of statements it ran.  errs holds
\* what the connection answers to the statements on the tables of images,
\* tags and ramos
LugarRepo_GetByID(st, id, dbErr, errs) ==
    IF ~dbErr.isNil
    THEN [found |-> FALSE, lugar |-> NoLugar, stmts |-> 1,
          err |-> Wrap("error getting lugar by ID", dbErr)]
    ELSE IF ~\E l \in st.lugares : l.ID = id
    THEN [found |-> FALSE, lugar |-> NoLugar, stmts |-> 1, err |-> NilErr]
    ELSE LET s == ScanLugar(st, CHOOSE l \in st.lugares : l.ID = id, 1, errs)
         IN  IF s.err.isNil
             THEN [found |-> TRUE, lugar |-> s.lugar, stmts |-> 1 + s.stmts,
                   err |-> NilErr]
             ELSE [found |-> FALSE, lugar |-> NoLugar, stmts |-> 1 + s.stmts,
                   err |-> s.err]

\* PostgresLugarRepository.List: ORDER BY l.id, then the related entities
\* of each place in turn, up to the first statement that fails
LugarRepo_List(st, dbErr, errs) ==
    LET ordered == OrderByID(st.lugares)
        scans == [i \in 1..Len(ordered) |-> ScanLugar(st, ordered[i], i, errs)]
        failed == {i \in 1..Len(ordered) : ~scans[i].err.isNil}
        first == CHOOSE i \in failed : \A j \in failed : i <= j
    IN  IF ~dbErr.isNil
        THEN [lugares |-> <<>>, stmts |-> 1,
              err |-> Wrap("error listing lugares", dbErr)]
        ELSE IF failed # {}
        THEN [lugares |-> <<>>,
              stmts |-> 1 + 3 * (first - 1) + scans[first].stmts,
              err |-> scans[first].err]
        ELSE [lugares |-> [i \in 1..Len(ordered) |-> scans[i].lugar],
              stmts |-> 1 + 3 * Len(ordered), err |-> NilErr]

\* PostgresLugarRepository.Create: the INSERT draws the id from
\* lugares_id_seq, and user_id REFERENCES users(id); a refused row keeps
\* the value it drew
LugarRepo_Create(st, lugar, dbErr) ==
    LET drawn == [st EXCEPT !.seq.lugares = @ + 1]
    IN  IF ~dbErr.isNil
        THEN [id |-> 0, err |-> Wrap("error creating lugar", dbErr),
              store |-> st]
        ELSE IF ~\E u \in st.users : u.ID = lugar.UserID
        THEN [id |-> 0,
              err |-> Wrap("error creating lugar",
                           ErrForeignKey("lugares", "lugares_user_id_fkey")),
              store |-> drawn]
        ELSE [id |-> drawn.seq.lugares, err |-> NilErr,
              store |-> [drawn EXCEPT
                           !.lugares = @ \cup
                               {LugarRow(drawn.seq.lugares, lugar.NomeLocal,
                                         lugar.UserID, lugar.CreatedAt,
                                         lugar.UpdatedAt)}]]

\* PostgresLugarRepository.Update: the UPDATE names every column but id and
\* created_at, of the row WHERE id = lugar.ID; no row, or a row whose
\* user_id then names no user
LugarRepo_Update(st, lugar, now, dbErr) ==
    IF ~dbErr.isNil
    THEN [err |-> Wrap("error updating lugar", dbErr), store |-> st]
    ELSE IF ~\E l \in st.lugares : l.ID = lugar.ID
    THEN [err |-> ErrOf("lugar with ID " \o ToString(lugar.ID)
                        \o " not found"),
          store |-> st]
    ELSE IF ~\E u \in st.users : u.ID = lugar.UserID
    THEN [err |-> Wrap("error updating lugar",
                       ErrForeignKey("lugares", "lugares_user_id_fkey")),
          store |-> st]
    ELSE [err |-> NilErr,
          store |-> [st EXCEPT !.lugares =
                       {IF l.ID = lugar.ID
                        THEN [l EXCEPT !.NomeLocal = lugar.NomeLocal,
                                       !.UserID = lugar.UserID,
                                       !.UpdatedAt = now]
                        ELSE l : l \in @}]]

\* PostgresLugarRepository.Delete
LugarRepo_Delete(st, id, dbErr) ==
    IF ~dbErr.isNil
    THEN [err |-> Wrap("error deleting lugar", dbErr), store |-> st]
    ELSE IF ~\E l \in st.lugares : l.ID = id
    THEN [err |-> ErrOf("lugar with ID " \o ToString(id) \o " not found"),
          store |-> st]
    ELSE [err |-> NilErr, store |-> WithoutLugares(st, {id})]

\* PostgresLugarRepository.AddImage: the INSERT draws the id from
\* lugares_images_id_seq, and lugar_id REFERENCES lugares(id)
LugarRepo_AddImage(st, image, dbErr) ==
    LET drawn == [st EXCEPT !.seq.images = @ + 1]
    IN  IF ~dbErr.isNil
        THEN [id |-> 0, err |-> Wrap("error adding image to lugar", dbErr),
              store |-> st]
        ELSE IF ~\E l \in st.lugares : l.ID = image.LugarID
        THEN [id |-> 0,
              err |-> Wrap("error adding image to lugar",
                           ErrForeignKey("lugares_images",
                                         "lugares_images_lugar_id_fkey")),
              store |-> drawn]
        ELSE [id |-> drawn.seq.images, err |-> NilErr,
              store |-> [drawn EXCEPT
                           !.images = @ \cup
                               {[image EXCEPT !.ID = drawn.seq.images]}]]

\* PostgresLugarRepository.DeleteImage: DELETE FROM lugares_images WHERE
\* id = $1
LugarRepo_DeleteImage(st, imageID, dbErr) ==
    IF ~dbErr.isNil
    THEN [err |-> Wrap("error deleting image", dbErr), store |-> st]
    ELSE IF ~\E im \in st.images : im.ID = imageID
    THEN [err |-> ErrOf("image with ID " \o ToString(imageID) \o " not found"),
          store |-> st]
    ELSE [err |-> NilErr,
          store |-> [st EXCEPT !.images = {im \in @ : im.ID # imageID}]]

\* the columns of the junction tables
LinkColumns ==
    [table \in DOMAIN TagName |->
        IF table = "lugares_tags" THEN <<"lugar_id", "tag_id">>
        ELSE IF table = "lugares_ramos" THEN <<"lugar_id", "ramo_id">>
        ELSE IF table = "cancoes_tags" THEN <<"cancao_id", "tag_id">>
        ELSE <<"cancao_id", "ramo_id">>]

\* AddTag and AddRamo of both repositories: INSERT ... ON CONFLICT DO
\* NOTHING into a junction table whose columns reference the owner and the
\* tag
Repo_AddLink(st, table, ownerExists, owner, id, prefix, dbErr) ==
    IF ~dbErr.isNil THEN [err |-> Wrap(prefix, dbErr), store |-> st]
    ELSE IF Link(table, owner, id) \in st.links
    THEN [err |-> NilErr, store |-> st]
    ELSE IF ~ownerExists
    THEN [err |-> Wrap(prefix,
                       ErrForeignKey(table, table \o "_" \o LinkColumns[table][1]
                                            \o "_fkey")),
          store |-> st]
    ELSE IF id \notin DOMAIN TagName[table]
    THEN [err |-> Wrap(prefix,
                       ErrForeignKey(table, table \o "_" \o LinkColumns[table][2]
                                            \o "_fkey")),
          store |-> st]
    ELSE [err |-> NilErr,
          store |-> [st EXCEPT !.links = @ \cup {Link(table, owner, id)}]]

\* RemoveTag and RemoveRamo of both repositories: the rows affected are not
\* counted
Repo_RemoveLink(st, table, owner, id, prefix, dbErr) ==
    IF ~dbErr.isNil THEN [err |-> Wrap(prefix, dbErr), store |-> st]
    ELSE [err |-> NilErr,
          store |-> [st EXCEPT !.links = @ \ {Link(table, owner, id)}]]

LugarRepo_AddTag(st, lugarID, tagID, dbErr) ==
    Repo_AddLink(st, "lugares_tags", \E l \in st.lugares : l.ID = lugarID,
                 lugarID, tagID, "error adding tag to lugar", dbErr)
LugarRepo_AddRamo(st, lugarID, ramoID, dbErr) ==
    Repo_AddLink(st, "lugares_ramos", \E l \in st.lugares : l.ID = lugarID,
                 lugarID, ramoID, "error adding ramo to lugar", dbErr)
LugarRepo_RemoveTag(st, lugarID, tagID, dbErr) ==
    Repo_RemoveLink(st, "lugares_tags", lugarID, tagID,
                    "error removing tag from lugar", dbErr)
LugarRepo_RemoveRamo(st, lugarID, ramoID, dbErr) ==
    Repo_RemoveLink(st, "lugares_ramos", lugarID, ramoID,
                    "error removing ramo from lugar", dbErr)

\* PostgresLugarRepository.AddRating: INSERT ... ON CONFLICT (lugar_id,
\* user_id) DO UPDATE SET rating, date RETURNING id.  The row proposed draws
\* an id from lugares_ratings_id_seq and meets CHECK (rating BETWEEN 1 AND
\* 5) before the conflict is looked for; a row that is refused, or that
\* ends as an UPDATE, keeps the value it drew
LugarRepo_AddRating(st, rating, dbErr) ==
    LET same == {r \in st.ratings : /\ r.LugarID = rating.LugarID
                                    /\ r.UserID = rating.UserID}
        drawn == [st EXCEPT !.seq.ratings = @ + 1]
        prefix == "error adding rating to lugar"
    IN  IF ~dbErr.isNil
        THEN [id |-> 0, err |-> Wrap(prefix, dbErr), store |-> st]
        ELSE IF rating.Rating \notin 1..5
        THEN [id |-> 0,
              err |-> Wrap(prefix, ErrCheck("lugares_ratings",
                                            "lugares_ratings_rating_check")),
              store |-> drawn]
        ELSE IF same # {}
        THEN [id |-> (CHOOSE r \in same : TRUE).ID, err |-> NilErr,
              store |-> [drawn EXCEPT !.ratings =
                           {IF r \in same
                            THEN [r EXCEPT !.Rating = rating.Rating,
                                           !.Date = rating.Date]
                            ELSE r : r \in @}]]
        ELSE IF ~\E l \in st.lugares : l.ID = rating.LugarID
        THEN [id |-> 0,
              err |-> Wrap(prefix,
                           ErrForeignKey("lugares_ratings",
                                         "lugares_ratings_lugar_id_fkey")),
              store |-> drawn]
        ELSE IF ~\E u \in st.users : u.ID = rating.UserID
        THEN [id |-> 0,
              err |-> Wrap(prefix,
                           ErrForeignKey("lugares_ratings",
                                         "lugares_ratings_user_id_fkey")),
              store |-> drawn]
        ELSE [id |-> drawn.seq.ratings, err |-> NilErr,
              store |-> [drawn EXCEPT
                           !.ratings = @ \cup
                               {[rating EXCEPT !.ID = drawn.seq.ratings]}]]

\* PostgresLugarRepository.UpdateRating: UPDATE lugares_ratings SET rating,
\* date WHERE id = $3
LugarRepo_UpdateRating(st, rating, dbErr) ==
    IF ~dbErr.isNil
    THEN [err |-> Wrap("error updating rating", dbErr), store |-> st]
    ELSE IF ~\E r \in st.ratings : r.ID = rating.ID
    THEN [err |-> ErrOf("rating with ID " \o ToString(rating.ID)
                        \o " not found"),
          store |-> st]
    ELSE IF rating.Rating \notin 1..5
    THEN [err |-> Wrap("error updating rating",
                       ErrCheck("lugares_ratings",
                                "lugares_ratings_rating_check")),
          store |-> st]
    ELSE [err |-> NilErr,
          store |-> [st EXCEPT !.ratings =
                       {IF r.ID = rating.ID
                        THEN [r EXCEPT !.Rating = rating.Rating,
                                       !.Date = rating.Date]
                        ELSE r : r \in @}]]

\* PostgresLugarRepository.DeleteRating: DELETE FROM lugares_ratings WHERE
\* id = $1
LugarRepo_DeleteRating(st, ratingID, dbErr) ==
    IF ~dbErr.isNil
    THEN [err |-> Wrap("error deleting rating", dbErr), store |-> st]
    ELSE IF ~\E r \in st.ratings : r.ID = ratingID
    THEN [err |-> ErrOf("rating with ID " \o ToString(ratingID)
                        \o " not found"),
          store |-> st]
    ELSE [err |-> NilErr,
          store |-> [st EXCEPT !.ratings = {r \in @ : r.ID # ratingID}]]

\* PostgresLugarRepository.GetRatings: ORDER BY date DESC
LugarRepo_GetRatings(st, lugarID, dbErr, ties) ==
    LET ratings == {r \in st.ratings : r.LugarID = lugarID}
    IN  IF ~dbErr.isNil
        THEN [ratings |-> <<>>,
              err |-> Wrap("error getting ratings for lugar", dbErr)]
        ELSE [ratings |-> OrderBy(ratings, [r \in ratings |-> 0 - r.Date],
                                  ties),
              err |-> NilErr]

(***************************************************************************)
(* lugar_handler.go.                                                       *)
(***************************************************************************)
\* what the connection answers during one invocation: dbErr to the SELECT
\* on the table of the resource, createErr to the INSERT, UPDATE or DELETE
\* on it, imageErrs, tagErrs and ramoErrs to the statements on the tables
\* of images, tags and ramos, in order, and the order ties it gives to rows
\* an ORDER BY leaves equal
Env(now, dbErr, createErr, imageErrs, tagErrs, ramoErrs, ties) ==
    [now |-> now, dbErr |-> dbErr, createErr |-> createErr,
     imageErrs |-> imageErrs, tagErrs |-> tagErrs, ramoErrs |-> ramoErrs,
     ties |-> ties]

Related(env) ==
    [images |-> env.imageErrs, tags |-> env.tagErrs, ramos |-> env.ramoErrs,
     ties |-> env.ties]

\* LugarHandler.GetLugar
GetLugar(request, st, env) ==
    LET a == Atoi(AsString(request.PathParameters, "id"))
        r == LugarRepo_GetByID(st, a.n, env.dbErr, Related(env))
        meta == MetaID("GetLugar", "lugares", a.n)
    IN  IF ~a.err.isNil
        THEN Plan(<<Log("Error", "Invalid lugar ID", a.err,
                        Meta("GetLugar", "lugares"))>>,
                  createErrorResponse(400, "Invalid lugar ID"), st)
        ELSE IF ~r.err.isNil
        THEN Plan(Reads(st, r.stmts)
                  \o <<Log("Error", "Error getting lugar", r.err, meta)>>,
                  createErrorResponse(500, "Error getting lugar"), st)
        ELSE IF ~r.found
        THEN Plan(Reads(st, r.stmts)
                  \o <<Log("Warn", "Lugar not found", NilErr, meta)>>,
                  createErrorResponse(404, "Lugar not found"), st)
        ELSE Plan(Reads(st, r.stmts)
                  \o <<Log("Info", "Lugar retrieved successfully", NilErr,
                           meta)>>,
                  createJSONResponse(200, MarshalLugar(r.lugar)), st)

\* LugarHandler.ListLugares
ListLugares(st, env) ==
    LET r == LugarRepo_List(st, env.dbErr, Related(env))
    IN  IF ~r.err.isNil
        THEN Plan(Reads(st, r.stmts)
                  \o <<Log("Error", "Error listing lugares", r.err,
                           Meta("ListLugares", "lugares"))>>,
                  createErrorResponse(500, "Error listing lugares"), st)
        ELSE Plan(Reads(st, r.stmts)
                  \o <<Log("Info", "Lugares listed successfully", NilErr,
                           With(Meta("ListLugares", "lugares"), "count",
                                IntVal(Len(r.lugares))))>>,
                  createJSONResponse(200,
                      MarshalSlice([i \in 1..Len(r.lugares) |->
                                       MarshalLugar(r.lugares[i])])),
                  st)

\* the loop of CreateLugar over lugar.Images, from image i on: its steps,
\* an ERROR call after each INSERT that failed, the images as it leaves
\* them and the tables
RECURSIVE AddImages(_, _, _, _, _, _)
AddImages(st, lugarID, images, now, errs, i) ==
    IF i > Len(images)
    THEN [steps |-> <<>>, images |-> <<>>, store |-> st]
    ELSE LET image == [images[i] EXCEPT !.LugarID = lugarID,
                                        !.CreatedAt = now]
             a == LugarRepo_AddImage(st, image, Answer(errs, i))
             rest == AddImages(a.store, lugarID, images, now, errs, i + 1)
         IN  [steps |->
                 Stmt(a)
                 \o (IF a.err.isNil THEN <<>>
                     ELSE <<Log("Error", "Error adding image to lugar", a.err,
                                MetaID("CreateLugar", "lugares", lugarID))>>)
                 \o rest.steps,
              images |-> <<IF a.err.isNil THEN [image EXCEPT !.ID = a.id]
                           ELSE image>> \o rest.images,
              store |-> rest.store]

\* the two kinds of resources with tags and ramos
LugarFamily == [resource |-> "lugares", noun |-> "lugar", Noun |-> "Lugar"]
CancaoFamily == [resource |-> "cancoes", noun |-> "cancao", Noun |-> "Cancao"]

KindName(kind) == IF kind = "tag" THEN "Tag" ELSE "Ramo"
LinkTable(fam, kind) == fam.resource \o "_" \o kind \o "s"
OwnerExists(st, fam, id) ==
    IF fam.resource = "lugares" THEN \E l \in st.lugares : l.ID = id
    ELSE \E c \in st.cancoes : c.ID = id

\* the loops of CreateLugar and CreateCancao over the tags and the ramos of
\* the body, from entry i on: their steps, an ERROR call after each INSERT
\* that failed, and the tables
RECURSIVE AddLinks(_, _, _, _, _, _, _)
AddLinks(st, fam, kind, ownerID, tags, errs, i) ==
    IF i > Len(tags) THEN [steps |-> <<>>, store |-> st]
    ELSE LET a == Repo_AddLink(st, LinkTable(fam, kind),
                               OwnerExists(st, fam, ownerID), ownerID,
                               tags[i].ID,
                               "error adding " \o kind \o " to " \o fam.noun,
                               Answer(errs, i))
             rest == AddLinks(a.store, fam, kind, ownerID, tags, errs, i + 1)
         IN  [steps |->
                 Stmt(a)
                 \o (IF a.err.isNil THEN <<>>
                     ELSE <<Log("Error",
                                "Error adding " \o kind \o " to " \o fam.noun,
                                a.err,
                                With(MetaID("Create" \o fam.Noun, fam.resource,
                                            ownerID),
                                     kind \o "_id",
                                     StrVal(ToString(tags[i].ID))))>>)
                 \o rest.steps,
              store |-> rest.store]

\* a CreateLugar that gives up at the first image it could not add
CreateLugar_StopsAtFailure(request, st, env) ==
    LET u == UnmarshalLugar(request.Body)
        lugar == [u.lugar EXCEPT !.CreatedAt = env.now, !.UpdatedAt = env.now]
        c == LugarRepo_Create(st, lugar, env.createErr)
        images == AddImages(c.store, c.id, lugar.Images, env.now,
                            env.imageErrs, 1)
        tags == AddLinks(images.store, LugarFamily, "tag", c.id, lugar.Tags,
                         env.tagErrs, 1)
        ramos == AddLinks(tags.store, LugarFamily, "ramo", c.id, lugar.Ramos,
                          env.ramoErrs, 1)
        failed == {i \in 1..Len(images.steps) : images.steps[i].log # <<>>}
    IN  IF ~u.err.isNil
        THEN Plan(<<Log("Error", "Invalid request body", u.err,
                        Meta("CreateLugar", "lugares"))>>,
                  createErrorResponse(400, "Invalid request body"), st)
        ELSE IF lugar.NomeLocal = ""
        THEN Plan(<<Log("Warn", "Invalid lugar data: nome_local is required",
                        NilErr, Meta("CreateLugar", "lugares"))>>,
                  createErrorResponse(400, "Nome local is required"), st)
        ELSE IF ~c.err.isNil
        THEN Plan(Stmt(c)
                  \o <<Log("Error", "Error creating lugar", c.err,
                           Meta("CreateLugar", "lugares"))>>,
                  createErrorResponse(500, "Error creating lugar"), st)
        ELSE IF failed # {}
        THEN Plan(Stmt(c)
                  \o SubSeq(images.steps, 1,
                            CHOOSE i \in failed : \A j \in failed : i <= j),
                  createErrorResponse(500, "Error adding image to lugar"), st)
        ELSE Plan(Stmt(c) \o images.steps \o tags.steps \o ramos.steps
                  \o <<Log("Info", "Lugar created successfully", NilErr,
                           MetaID("CreateLugar", "lugares", c.id))>>,
                  createJSONResponse(201,
                      MarshalLugar([lugar EXCEPT !.ID = c.id,
                                                 !.Images = images.images])),
                  st)

\* LugarHandler.CreateLugar: its steps, in order, and the response it
\* returns
CreateLugar(request, st, env) ==
    LET u == UnmarshalLugar(request.Body)
        lugar == [u.lugar EXCEPT !.CreatedAt = env.now, !.UpdatedAt = env.now]
        c == LugarRepo_Create(st, lugar, env.createErr)
        images == AddImages(c.store, c.id, lugar.Images, env.now,
                            env.imageErrs, 1)
        tags == AddLinks(images.store, LugarFamily, "tag", c.id, lugar.Tags,
                         env.tagErrs, 1)
        ramos == AddLinks(tags.store, LugarFamily, "ramo", c.id, lugar.Ramos,
                          env.ramoErrs, 1)
    IN  IF ~u.err.isNil
        THEN Plan(<<Log("Error", "Invalid request body", u.err,
                        Meta("CreateLugar", "lugares"))>>,
                  createErrorResponse(400, "Invalid request body"), st)
        ELSE IF lugar.NomeLocal = ""
        THEN Plan(<<Log("Warn", "Invalid lugar data: nome_local is required",
                        NilErr, Meta("CreateLugar", "lugares"))>>,
                  createErrorResponse(400, "Nome local is required"), st)
        ELSE IF ~c.err.isNil
        THEN Plan(Stmt(c)
                  \o <<Log("Error", "Error creating lugar", c.err,
                           Meta("CreateLugar", "lugares"))>>,
                  createErrorResponse(500, "Error creating lugar"), st)
        ELSE Plan(Stmt(c) \o images.steps \o tags.steps \o ramos.steps
                  \o <<Log("Info", "Lugar created successfully", NilErr,
                           MetaID("CreateLugar", "lugares", c.id))>>,
                  createJSONResponse(201,
                      MarshalLugar([lugar EXCEPT !.ID = c.id,
                                                 !.Images = images.images])),
                  st)

\* an UpdateLugar that takes every field of the body
UpdatedLugar_WithBodyID(existingLugar, updatedLugar, now) ==
    [existingLugar EXCEPT !.ID = IF updatedLugar.ID = 0 THEN @
                                 ELSE updatedLugar.ID,
                          !.NomeLocal = updatedLugar.NomeLocal,
                          !.UserID = updatedLugar.UserID,
                          !.UpdatedAt = now]

\* "Update lugar fields": the record UpdateLugar hands to the repository
UpdatedLugar(existingLugar, updatedLugar, now) ==
    [existingLugar EXCEPT !.NomeLocal = updatedLugar.NomeLocal,
                          !.UserID = updatedLugar.UserID,
                          !.UpdatedAt = now]

\* LugarHandler.UpdateLugar
UpdateLugar(request, st, env) ==
    LET a == Atoi(AsString(request.PathParameters, "id"))
        r == LugarRepo_GetByID(st, a.n, env.dbErr, Related(env))
        u == UnmarshalLugar(request.Body)
        existingLugar == UpdatedLugar(r.lugar, u.lugar, env.now)
        w == LugarRepo_Update(st, existingLugar, env.now, env.createErr)
        meta == MetaID("UpdateLugar", "lugares", a.n)
    IN  IF ~a.err.isNil
        THEN Plan(<<Log("Error", "Invalid lugar ID", a.err,
                        Meta("UpdateLugar", "lugares"))>>,
                  createErrorResponse(400, "Invalid lugar ID"), st)
        ELSE IF ~r.err.isNil
        THEN Plan(Reads(st, r.stmts)
                  \o <<Log("Error", "Error getting lugar", r.err, meta)>>,
                  createErrorResponse(500, "Error getting lugar"), st)
        ELSE IF ~r.found
        THEN Plan(Reads(st, r.stmts)
                  \o <<Log("Warn", "Lugar not found", NilErr, meta)>>,
                  createErrorResponse(404, "Lugar not found"), st)
        ELSE IF ~u.err.isNil
        THEN Plan(Reads(st, r.stmts)
                  \o <<Log("Error", "Invalid request body", u.err, meta)>>,
                  createErrorResponse(400, "Invalid request body"), st)
        ELSE IF u.lugar.NomeLocal = ""
        THEN Plan(Reads(st, r.stmts)
                  \o <<Log("Warn",
                           "Invalid lugar data: nome_local is required",
                           NilErr, meta)>>,
                  createErrorResponse(400, "Nome local is required"), st)
        ELSE IF ~w.err.isNil
        THEN Plan(Reads(st, r.stmts) \o Stmt(w)
                  \o <<Log("Error", "Error updating lugar", w.err, meta)>>,
                  createErrorResponse(500, "Error updating lugar"), st)
        ELSE Plan(Reads(st, r.stmts) \o Stmt(w)
                  \o <<Log("Info", "Lugar updated successfully", NilErr,
                           meta)>>,
                  createJSONResponse(200, MarshalLugar(existingLugar)),
                  st)

\* LugarHandler.DeleteLugar
DeleteLugar(request, st, env) ==
    LET a == Atoi(AsString(request.PathParameters, "id"))
        d == LugarRepo_Delete(st, a.n, env.createErr)
        meta == MetaID("DeleteLugar", "lugares", a.n)
    IN  IF ~a.err.isNil
        THEN Plan(<<Log("Error", "Invalid lugar ID", a.err,
                        Meta("DeleteLugar", "lugares"))>>,
                  createErrorResponse(400, "Invalid lugar ID"), st)
        ELSE IF ~d.err.isNil
        THEN Plan(Stmt(d)
                  \o <<Log("Error", "Error deleting lugar", d.err, meta)>>,
                  createErrorResponse(500, "Error deleting lugar"), st)
        ELSE Plan(Stmt(d)
                  \o <<Log("Info", "Lugar deleted successfully", NilErr,
                           meta)>>,
                  NoContentResponse, st)

\* a request body for an image, and json.Unmarshal(body, &image) on the
\* bodies drawn
ImageBody(imageURL) ==
    "{" \o Quote("image_url") \o ":" \o Quote(imageURL) \o "}"
UnmarshalImage(body) ==
    IF body = "{}" THEN [image |-> LugarImage(0, 0, "", 0), err |-> NilErr]
    ELSE IF body = ImageBody("nova.png")
    THEN [image |-> LugarImage(0, 0, "nova.png", 0), err |-> NilErr]
    ELSE [image |-> LugarImage(0, 0, "", 0), err |-> ErrTruncatedJSON]

\* LugarHandler.AddImageToLugar
AddImageToLugar(request, st, env) ==
    LET a == Atoi(AsString(request.PathParameters, "id"))
        u == UnmarshalImage(request.Body)
        image == [u.image EXCEPT !.LugarID = a.n, !.CreatedAt = env.now]
        c == LugarRepo_AddImage(st, image, Answer(env.imageErrs, 1))
        meta == MetaID("AddImageToLugar", "lugares", a.n)
    IN  IF ~a.err.isNil
        THEN Plan(<<Log("Error", "Invalid lugar ID", a.err,
                        Meta("AddImageToLugar", "lugares"))>>,
                  createErrorResponse(400, "Invalid lugar ID"), st)
        ELSE IF ~u.err.isNil
        THEN Plan(<<Log("Error", "Invalid request body", u.err, meta)>>,
                  createErrorResponse(400, "Invalid request body"), st)
        ELSE IF ~c.err.isNil
        THEN Plan(Stmt(c)
                  \o <<Log("Error", "Error adding image to lugar", c.err,
                           meta)>>,
                  createErrorResponse(500, "Error adding image to lugar"), st)
        ELSE Plan(Stmt(c)
                  \o <<Log("Info", "Image added to lugar successfully",
                           NilErr,
                           With(meta, "image_id", StrVal(ToString(c.id))))>>,
                  createJSONResponse(201,
                      MarshalImage([image EXCEPT !.ID = c.id])),
                  st)

\* LugarHandler.DeleteImageFromLugar: the id of the place is parsed and
\* dropped
DeleteImageFromLugar(request, st, env) ==
    LET a == Atoi(AsString(request.PathParameters, "id"))
        b == Atoi(AsString(request.PathParameters, "imageId"))
        d == LugarRepo_DeleteImage(st, b.n, Answer(env.imageErrs, 1))
        meta == With(Meta("DeleteImageFromLugar", "lugares"), "image_id",
                     StrVal(ToString(b.n)))
    IN  IF ~a.err.isNil
        THEN Plan(<<Log("Error", "Invalid lugar ID", a.err,
                        Meta("DeleteImageFromLugar", "lugares"))>>,
                  createErrorResponse(400, "Invalid lugar ID"), st)
        ELSE IF ~b.err.isNil
        THEN Plan(<<Log("Error", "Invalid image ID", b.err,
                        Meta("DeleteImageFromLugar", "lugares"))>>,
                  createErrorResponse(400, "Invalid image ID"), st)
        ELSE IF ~d.err.isNil
        THEN Plan(Stmt(d)
                  \o <<Log("Error", "Error deleting image from lugar", d.err,
                           meta)>>,
                  createErrorResponse(500, "Error deleting image from lugar"),
                  st)
        ELSE Plan(Stmt(d)
                  \o <<Log("Info", "Image deleted from lugar successfully",
                           NilErr, meta)>>,
                  NoContentResponse, st)

\* a request body naming a tag or a ramo, and json.Unmarshal(body,
\* &requestBody) on the bodies drawn
LinkBody(kind, id) ==
    "{" \o Quote(kind \o "_id") \o ":" \o ToString(id) \o "}"
UnmarshalLink(kind, body) ==
    IF body = "{}" THEN [id |-> 0, err |-> NilErr]
    ELSE IF \E i \in 1..2 : body = LinkBody(kind, i)
    THEN [id |-> CHOOSE i \in 1..2 : body = LinkBody(kind, i), err |-> NilErr]
    ELSE [id |-> 0, err |-> ErrTruncatedJSON]

\* AddTagToLugar, AddRamoToLugar, AddTagToCancao and AddRamoToCancao, which
\* differ in the names alone
AddLinkTo(fam, kind, request, st, dbErr) ==
    LET action == "Add" \o KindName(kind) \o "To" \o fam.Noun
        a == Atoi(AsString(request.PathParameters, "id"))
        u == UnmarshalLink(kind, request.Body)
        c == Repo_AddLink(st, LinkTable(fam, kind),
                          OwnerExists(st, fam, a.n), a.n, u.id,
                          "error adding " \o kind \o " to " \o fam.noun, dbErr)
        meta == MetaID(action, fam.resource, a.n)
        metaKind == With(meta, kind \o "_id", StrVal(ToString(u.id)))
    IN  IF ~a.err.isNil
        THEN Plan(<<Log("Error", "Invalid " \o fam.noun \o " ID", a.err,
                        Meta(action, fam.resource))>>,
                  createErrorResponse(400, "Invalid " \o fam.noun \o " ID"),
                  st)
        ELSE IF ~u.err.isNil
        THEN Plan(<<Log("Error", "Invalid request body", u.err, meta)>>,
                  createErrorResponse(400, "Invalid request body"), st)
        ELSE IF ~c.err.isNil
        THEN Plan(Stmt(c)
                  \o <<Log("Error",
                           "Error adding " \o kind \o " to " \o fam.noun,
                           c.err, metaKind)>>,
                  createErrorResponse(500,
                      "Error adding " \o kind \o " to " \o fam.noun),
                  st)
        ELSE Plan(Stmt(c)
                  \o <<Log("Info",
                           KindName(kind) \o " added to " \o fam.noun
                           \o " successfully",
                           NilErr, metaKind)>>,
                  NoContentResponse, st)

\* RemoveTagFromLugar, RemoveRamoFromLugar, RemoveTagFromCancao and
\* RemoveRamoFromCancao, likewise
RemoveLinkFrom(fam, kind, request, st, dbErr) ==
    LET action == "Remove" \o KindName(kind) \o "From" \o fam.Noun
        a == Atoi(AsString(request.PathParameters, "id"))
        b == Atoi(AsString(request.PathParameters, kind \o "Id"))
        d == Repo_RemoveLink(st, LinkTable(fam, kind), a.n, b.n,
                             "error removing " \o kind \o " from "
                             \o fam.noun,
                             dbErr)
        meta == MetaID(action, fam.resource, a.n)
        metaKind == With(meta, kind \o "_id", StrVal(ToString(b.n)))
    IN  IF ~a.err.isNil
        THEN Plan(<<Log("Error", "Invalid " \o fam.noun \o " ID", a.err,
                        Meta(action, fam.resource))>>,
                  createErrorResponse(400, "Invalid " \o fam.noun \o " ID"),
                  st)
        ELSE IF ~b.err.isNil
        THEN Plan(<<Log("Error", "Invalid " \o kind \o " ID", b.err,
                        meta)>>,
                  createErrorResponse(400, "Invalid " \o kind \o " ID"), st)
        ELSE IF ~d.err.isNil
        THEN Plan(Stmt(d)
                  \o <<Log("Error",
                           "Error removing " \o kind \o " from " \o fam.noun,
                           d.err, metaKind)>>,
                  createErrorResponse(500,
                      "Error removing " \o kind \o " from " \o fam.noun),
                  st)
        ELSE Plan(Stmt(d)
                  \o <<Log("Info",
                           KindName(kind) \o " removed from " \o fam.noun
                           \o " successfully",
                           NilErr, metaKind)>>,
                  NoContentResponse, st)

AddTagToLugar(request, st, env) ==
    AddLinkTo(LugarFamily, "tag", request, st, Answer(env.tagErrs, 1))
AddRamoToLugar(request, st, env) ==
    AddLinkTo(LugarFamily, "ramo", request, st, Answer(env.ramoErrs, 1))
RemoveTagFromLugar(request, st, env) ==
    RemoveLinkFrom(LugarFamily, "tag", request, st, Answer(env.tagErrs, 1))
RemoveRamoFromLugar(request, st, env) ==
    RemoveLinkFrom(LugarFamily, "ramo", request, st, Answer(env.ramoErrs, 1))

\* a request body for a rating: the rating is left out when zero
RatingBody(userID, rating) ==
    "{" \o Quote("user_id") \o ":" \o ToString(userID)
    \o (IF rating = 0 THEN ""
        ELSE "," \o Quote("rating") \o ":" \o ToString(rating))
    \o "}"

\* the ratings the bodies drawn carry
RatingValues == {-1, 0, 1, 5, 6}

\* json.Unmarshal([]byte(request.Body), &rating) on the bodies drawn here
UnmarshalRating(body) ==
    IF body = "{}"
    THEN [rating |-> LugarRating(0, 0, 0, 0, 0), err |-> NilErr]
    ELSE IF \E x \in {0, 42} \X RatingValues : body = RatingBody(x[1], x[2])
    THEN LET x == CHOOSE y \in {0, 42} \X RatingValues :
                     body = RatingBody(y[1], y[2])
         IN  [rating |-> LugarRating(0, 0, x[1], x[2], 0), err |-> NilErr]
    ELSE [rating |-> LugarRating(0, 0, 0, 0, 0), err |-> ErrTruncatedJSON]

\* a handler that takes any rating
ValidRating_Any(n) == TRUE

\* "Validate rating": the negation of rating.Rating < 1 || rating.Rating > 5
ValidRating(n) == ~(n < 1 \/ n > 5)

\* LugarHandler.AddRatingToLugar
AddRatingToLugar(request, st, env) ==
    LET a == Atoi(AsString(request.PathParameters, "id"))
        u == UnmarshalRating(request.Body)
        rating == [u.rating EXCEPT !.LugarID = a.n, !.Date = env.now]
        c == LugarRepo_AddRating(st, rating, env.createErr)
        meta == MetaID("AddRatingToLugar", "lugares", a.n)
    IN  IF ~a.err.isNil
        THEN Plan(<<Log("Error", "Invalid lugar ID", a.err,
                        Meta("AddRatingToLugar", "lugares"))>>,
                  createErrorResponse(400, "Invalid lugar ID"), st)
        ELSE IF ~u.err.isNil
        THEN Plan(<<Log("Error", "Invalid request body", u.err, meta)>>,
                  createErrorResponse(400, "Invalid request body"), st)
        ELSE IF ~ValidRating(u.rating.Rating)
        THEN Plan(<<Log("Warn", "Invalid rating value", NilErr,
                        With(meta, "rating", IntVal(u.rating.Rating)))>>,
                  createErrorResponse(400, "Rating must be between 1 and 5"),
                  st)
        ELSE IF ~c.err.isNil
        THEN Plan(Stmt(c)
                  \o <<Log("Error", "Error adding rating to lugar", c.err,
                           meta)>>,
                  createErrorResponse(500, "Error adding rating to lugar"),
                  st)
        ELSE Plan(Stmt(c)
                  \o <<Log("Info", "Rating added to lugar successfully",
                           NilErr,
                           With(With(meta, "rating_id",
                                     StrVal(ToString(c.id))),
                                "rating", IntVal(rating.Rating)))>>,
                  createJSONResponse(201,
                      MarshalRating([rating EXCEPT !.ID = c.id])),
                  st)

\* LugarHandler.UpdateRatingForLugar
UpdateRatingForLugar(request, st, env) ==
    LET a == Atoi(AsString(request.PathParameters, "id"))
        b == Atoi(AsString(request.PathParameters, "ratingId"))
        u == UnmarshalRating(request.Body)
        rating == [u.rating EXCEPT !.ID = b.n, !.LugarID = a.n,
                                   !.Date = env.now]
        w == LugarRepo_UpdateRating(st, rating, env.createErr)
        meta == MetaID("UpdateRatingForLugar", "lugares", a.n)
        metaRating == With(meta, "rating_id", StrVal(ToString(b.n)))
    IN  IF ~a.err.isNil
        THEN Plan(<<Log("Error", "Invalid lugar ID", a.err,
                        Meta("UpdateRatingForLugar", "lugares"))>>,
                  createErrorResponse(400, "Invalid lugar ID"), st)
        ELSE IF ~b.err.isNil
        THEN Plan(<<Log("Error", "Invalid rating ID", b.err, meta)>>,
                  createErrorResponse(400, "Invalid rating ID"), st)
        ELSE IF ~u.err.isNil
        THEN Plan(<<Log("Error", "Invalid request body", u.err,
                        metaRating)>>,
                  createErrorResponse(400, "Invalid request body"), st)
        ELSE IF ~ValidRating(u.rating.Rating)
        THEN Plan(<<Log("Warn", "Invalid rating value", NilErr,
                        With(metaRating, "rating",
                             IntVal(u.rating.Rating)))>>,
                  createErrorResponse(400, "Rating must be between 1 and 5"),
                  st)
        ELSE IF ~w.err.isNil
        THEN Plan(Stmt(w)
                  \o <<Log("Error", "Error updating rating for lugar", w.err,
                           metaRating)>>,
                  createErrorResponse(500, "Error updating rating for lugar"),
                  st)
        ELSE Plan(Stmt(w)
                  \o <<Log("Info", "Rating updated for lugar successfully",
                           NilErr,
                           With(metaRating, "rating",
                                IntVal(rating.Rating)))>>,
                  createJSONResponse(200, MarshalRating(rating)), st)

\* LugarHandler.DeleteRatingFromLugar
DeleteRatingFromLugar(request, st, env) ==
    LET a == Atoi(AsString(request.PathParameters, "id"))
        b == Atoi(AsString(request.PathParameters, "ratingId"))
        d == LugarRepo_DeleteRating(st, b.n, env.createErr)
        meta == MetaID("DeleteRatingFromLugar", "lugares", a.n)
        metaRating == With(meta, "rating_id", StrVal(ToString(b.n)))
    IN  IF ~a.err.isNil
        THEN Plan(<<Log("Error", "Invalid lugar ID", a.err,
                        Meta("DeleteRatingFromLugar", "lugares"))>>,
                  createErrorResponse(400, "Invalid lugar ID"), st)
        ELSE IF ~b.err.isNil
        THEN Plan(<<Log("Error", "Invalid rating ID", b.err, meta)>>,
                  createErrorResponse(400, "Invalid rating ID"), st)
        ELSE IF ~d.err.isNil
        THEN Plan(Stmt(d)
                  \o <<Log("Error", "Error deleting rating from lugar",
                           d.err, metaRating)>>,
                  createErrorResponse(500, "Error deleting rating from lugar"),
                  st)
        ELSE Plan(Stmt(d)
                  \o <<Log("Info", "Rating deleted from lugar successfully",
                           NilErr, metaRating)>>,
                  NoContentResponse, st)

\* LugarHandler.GetRatingsForLugar
GetRatingsForLugar(request, st, env) ==
    LET a == Atoi(AsString(request.PathParameters, "id"))
        r == LugarRepo_GetRatings(st, a.n, env.dbErr, env.ties)
        meta == MetaID("GetRatingsForLugar", "lugares", a.n)
    IN  IF ~a.err.isNil
        THEN Plan(<<Log("Error", "Invalid lugar ID", a.err,
                        Meta("GetRatingsForLugar", "lugares"))>>,
                  createErrorResponse(400, "Invalid lugar ID"), st)
        ELSE IF ~r.err.isNil
        THEN Plan(Reads(st, 1)
                  \o <<Log("Error", "Error getting ratings for lugar", r.err,
                           meta)>>,
                  createErrorResponse(500, "Error getting ratings for lugar"),
                  st)
        ELSE Plan(Reads(st, 1)
                  \o <<Log("Info",
                           "Ratings retrieved for lugar successfully", NilErr,
                           With(meta, "count", IntVal(Len(r.ratings))))>>,
                  createJSONResponse(200,
                      MarshalSlice([i \in 1..Len(r.ratings) |->
                                       MarshalRating(r.ratings[i])])),
                  st)

(***************************************************************************)
(* PostgresCancaoRepository and CancaoHandler.                             *)
(***************************************************************************)
\* json.Marshal(cancao): tags and ramos are omitted when empty
MarshalCancao(c) ==
    "{" \o Quote("id") \o ":" \o ToString(c.ID)
    \o "," \o Quote("nome") \o ":" \o Quote(c.Nome)
    \o "," \o Quote("link_youtube") \o ":" \o Quote("")
    \o "," \o Quote("letra") \o ":" \o Quote("")
    \o "," \o Quote("user_id") \o ":" \o ToString(c.UserID)
    \o "," \o Quote("created_at") \o ":" \o ToString(c.CreatedAt)
    \o "," \o Quote("updated_at") \o ":" \o ToString(c.UpdatedAt)
    \o (IF Len(c.Tags) = 0 THEN ""
        ELSE "," \o Quote("tags") \o ":[" \o MarshalTags(c.Tags) \o "]")
    \o (IF Len(c.Ramos) = 0 THEN ""
        ELSE "," \o Quote("ramos") \o ":[" \o MarshalTags(c.Ramos) \o "]")
    \o "}"

\* a request body for a song
CancaoBodyWith(id, createdAt, userID, nome, t, r) ==
    "{"
    \o (IF id = 0 THEN "" ELSE Quote("id") \o ":" \o ToString(id) \o ",")
    \o Quote("nome") \o ":" \o Quote(nome)
    \o (IF userID = 0 THEN ""
        ELSE "," \o Quote("user_id") \o ":" \o ToString(userID))
    \o (IF createdAt = 0 THEN ""
        ELSE "," \o Quote("created_at") \o ":" \o ToString(createdAt))
    \o (IF t = 0 THEN ""
        ELSE "," \o Quote("tags") \o ":[" \o TagBodies(t, 1) \o "]")
    \o (IF r = 0 THEN ""
        ELSE "," \o Quote("ramos") \o ":[" \o TagBodies(r, 1) \o "]")
    \o "}"

CancaoFields ==
    {0, 2} \X {0, 5} \X {0, 42} \X {"Canto"} \X (0..MaxTags) \X (0..MaxTags)

\* json.Unmarshal([]byte(request.Body), &cancao) on the bodies drawn here
UnmarshalCancao(body) ==
    IF body = "{}"
    THEN [cancao |-> Cancao(0, "", 0), err |-> NilErr]
    ELSE IF \E x \in CancaoFields :
               body = CancaoBodyWith(x[1], x[2], x[3], x[4], x[5], x[6])
    THEN LET x == CHOOSE y \in CancaoFields :
                     body = CancaoBodyWith(y[1], y[2], y[3], y[4], y[5], y[6])
         IN  [cancao |->
                 [Cancao(x[1], x[4], x[2])
                  EXCEPT !.UserID = x[3], !.UpdatedAt = 0,
                         !.Tags = [i \in 1..x[5] |-> Tag(i, "")],
                         !.Ramos = [i \in 1..x[6] |-> Tag(i, "")]],
              err |-> NilErr]
    ELSE [cancao |-> Cancao(0, "", 0), err |-> ErrTruncatedJSON]

\* the models.Cancao a SELECT scans from a row, with its tags and ramos,
\* and the statements that fetched them
ScanCancao(st, row, i, errs) ==
    LET tags == IF Answer(errs.tags, i).isNil
                THEN [tags |-> LinkedTags(st, "cancoes_tags", row.ID),
                      err |-> NilErr]
                ELSE [tags |-> <<>>,
                      err |-> Wrap("error getting tags for cancao",
                                   Answer(errs.tags, i))]
        ramos == IF Answer(errs.ramos, i).isNil
                 THEN [tags |-> LinkedTags(st, "cancoes_ramos", row.ID),
                       err |-> NilErr]
                 ELSE [tags |-> <<>>,
                       err |-> Wrap("error getting ramos for cancao",
                                    Answer(errs.ramos, i))]
        cancao == [ID |-> row.ID, Nome |-> row.Nome, UserID |-> row.UserID,
                   CreatedAt |-> row.CreatedAt, UpdatedAt |-> row.UpdatedAt,
                   Tags |-> tags.tags, Ramos |-> ramos.tags]
    IN  IF ~tags.err.isNil
        THEN [cancao |-> cancao, stmts |-> 1,
              err |-> Wrap("error getting tags for cancao", tags.err)]
        ELSE IF ~ramos.err.isNil
        THEN [cancao |-> cancao, stmts |-> 2,
              err |-> Wrap("error getting ramos for cancao", ramos.err)]
        ELSE [cancao |-> cancao, stmts |-> 2, err |-> NilErr]

\* PostgresCancaoRepository.GetByID: (cancao, nil), (nil, nil) when no row
\* has the id, or (nil, error), and the number of statements it ran
CancaoRepo_GetByID(st, id, dbErr, errs) ==
    IF ~dbErr.isNil
    THEN [found |-> FALSE, cancao |-> Cancao(0, "", 0), stmts |-> 1,
          err |-> Wrap("error getting cancao by ID", dbErr)]
    ELSE IF ~\E c \in st.cancoes : c.ID = id
    THEN [found |-> FALSE, cancao |-> Cancao(0, "", 0), stmts |-> 1,
          err |-> NilErr]
    ELSE LET s == ScanCancao(st, CHOOSE c \in st.cancoes : c.ID = id, 1, errs)
         IN  IF s.err.isNil
             THEN [found |-> TRUE, cancao |-> s.cancao, stmts |-> 1 + s.stmts,
                   err |-> NilErr]
             ELSE [found |-> FALSE, cancao |-> Cancao(0, "", 0),
                   stmts |-> 1 + s.stmts, err |-> s.err]

\* PostgresCancaoRepository.List: ORDER BY id, then the tags and the ramos
\* of each song in turn, up to the first statement that fails
CancaoRepo_List(st, dbErr, errs) ==
    LET ordered == OrderByID(st.cancoes)
        scans == [i \in 1..Len(ordered) |->
                     ScanCancao(st, ordered[i], i, errs)]
        failed == {i \in 1..Len(ordered) : ~scans[i].err.isNil}
        first == CHOOSE i \in failed : \A j \in failed : i <= j
    IN  IF ~dbErr.isNil
        THEN [cancoes |-> <<>>, stmts |-> 1,
              err |-> Wrap("error listing cancoes", dbErr)]
        ELSE IF failed # {}
        THEN [cancoes |-> <<>>,
              stmts |-> 1 + 2 * (first - 1) + scans[first].stmts,
              err |-> scans[first].err]
        ELSE [cancoes |-> [i \in 1..Len(ordered) |-> scans[i].cancao],
              stmts |-> 1 + 2 * Len(ordered), err |-> NilErr]

\* PostgresCancaoRepository.Create: the INSERT draws the id from
\* cancoes_id_seq, and user_id REFERENCES users(id); a refused row keeps
\* the value it drew
CancaoRepo_Create(st, cancao, dbErr) ==
    LET drawn == [st EXCEPT !.seq.cancoes = @ + 1]
    IN  IF ~dbErr.isNil
        THEN [id |-> 0, err |-> Wrap("error creating cancao", dbErr),
              store |-> st]
        ELSE IF ~\E u \in st.users : u.ID = cancao.UserID
        THEN [id |-> 0,
              err |-> Wrap("error creating cancao",
                           ErrForeignKey("cancoes", "cancoes_user_id_fkey")),
              store |-> drawn]
        ELSE [id |-> drawn.seq.cancoes, err |-> NilErr,
              store |-> [drawn EXCEPT
                           !.cancoes = @ \cup
                               {CancaoRow(drawn.seq.cancoes, cancao.Nome,
                                          cancao.UserID, cancao.CreatedAt,
                                          cancao.UpdatedAt)}]]

\* PostgresCancaoRepository.Update: the UPDATE names every column but id
\* and created_at, of the row WHERE id = cancao.ID; no row, or a row whose
\* user_id then names no user
CancaoRepo_Update(st, cancao, now, dbErr) ==
    IF ~dbErr.isNil
    THEN [err |-> Wrap("error updating cancao", dbErr), store |-> st]
    ELSE IF ~\E c \in st.cancoes : c.ID = cancao.ID
    THEN [err |-> ErrOf("cancao with ID " \o ToString(cancao.ID)
                        \o " not found"),
          store |-> st]
    ELSE IF ~\E u \in st.users : u.ID = cancao.UserID
    THEN [err |-> Wrap("error updating cancao",
                       ErrForeignKey("cancoes", "cancoes_user_id_fkey")),
          store |-> st]
    ELSE [err |-> NilErr,
          store |-> [st EXCEPT !.cancoes =
                       {IF c.ID = cancao.ID
                        THEN [c EXCEPT !.Nome = cancao.Nome,
                                       !.UserID = cancao.UserID,
                                       !.UpdatedAt = now]
                        ELSE c : c \in @}]]

\* PostgresCancaoRepository.Delete
CancaoRepo_Delete(st, id, dbErr) ==
    IF ~dbErr.isNil
    THEN [err |-> Wrap("error deleting cancao", dbErr), store |-> st]
    ELSE IF ~\E c \in st.cancoes : c.ID = id
    THEN [err |-> ErrOf("cancao with ID " \o ToString(id) \o " not found"),
          store |-> st]
    ELSE [err |-> NilErr, store |-> WithoutCancoes(st, {id})]

\* CancaoHandler.GetCancao
GetCancao(request, st, env) ==
    LET a == Atoi(AsString(request.PathParameters, "id"))
        r == CancaoRepo_GetByID(st, a.n, env.dbErr, Related(env))
        meta == MetaID("GetCancao", "cancoes", a.n)
    IN  IF ~a.err.isNil
        THEN Plan(<<Log("Error", "Invalid cancao ID", a.err,
                        Meta("GetCancao", "cancoes"))>>,
                  createErrorResponse(400, "Invalid cancao ID"), st)
        ELSE IF ~r.err.isNil
        THEN Plan(Reads(st, r.stmts)
                  \o <<Log("Error", "Error getting cancao", r.err, meta)>>,
                  createErrorResponse(500, "Error getting cancao"), st)
        ELSE IF ~r.found
        THEN Plan(Reads(st, r.stmts)
                  \o <<Log("Warn", "Cancao not found", NilErr, meta)>>,
                  createErrorResponse(404, "Cancao not found"), st)
        ELSE Plan(Reads(st, r.stmts)
                  \o <<Log("Info", "Cancao retrieved successfully", NilErr,
                           meta)>>,
                  createJSONResponse(200, MarshalCancao(r.cancao)), st)

\* CancaoHandler.ListCancoes
ListCancoes(st, env) ==
    LET r == CancaoRepo_List(st, env.dbErr, Related(env))
    IN  IF ~r.err.isNil
        THEN Plan(Reads(st, r.stmts)
                  \o <<Log("Error", "Error listing cancoes", r.err,
                           Meta("ListCancoes", "cancoes"))>>,
                  createErrorResponse(500, "Error listing cancoes"), st)
        ELSE Plan(Reads(st, r.stmts)
                  \o <<Log("Info", "Cancoes listed successfully", NilErr,
                           With(Meta("ListCancoes", "cancoes"), "count",
                                IntVal(Len(r.cancoes))))>>,
                  createJSONResponse(200,
                      MarshalSlice([i \in 1..Len(r.cancoes) |->
                                       MarshalCancao(r.cancoes[i])])),
                  st)

\* CancaoHandler.CreateCancao
CreateCancao(request, st, env) ==
    LET u == UnmarshalCancao(request.Body)
        cancao == [u.cancao EXCEPT !.CreatedAt = env.now,
                                   !.UpdatedAt = env.now]
        c == CancaoRepo_Create(st, cancao, env.createErr)
        tags == AddLinks(c.store, CancaoFamily, "tag", c.id, cancao.Tags,
                         env.tagErrs, 1)
        ramos == AddLinks(tags.store, CancaoFamily, "ramo", c.id,
                          cancao.Ramos, env.ramoErrs, 1)
    IN  IF ~u.err.isNil
        THEN Plan(<<Log("Error", "Invalid request body", u.err,
                        Meta("CreateCancao", "cancoes"))>>,
                  createErrorResponse(400, "Invalid request body"), st)
        ELSE IF cancao.Nome = ""
        THEN Plan(<<Log("Warn", "Invalid cancao data: nome is required",
                        NilErr, Meta("CreateCancao", "cancoes"))>>,
                  createErrorResponse(400, "Nome is required"), st)
        ELSE IF ~c.err.isNil
        THEN Plan(Stmt(c)
                  \o <<Log("Error", "Error creating cancao", c.err,
                           Meta("CreateCancao", "cancoes"))>>,
                  createErrorResponse(500, "Error creating cancao"), st)
        ELSE Plan(Stmt(c) \o tags.steps \o ramos.steps
                  \o <<Log("Info", "Cancao created successfully", NilErr,
                           MetaID("CreateCancao", "cancoes", c.id))>>,
                  createJSONResponse(201,
                      MarshalCancao([cancao EXCEPT !.ID = c.id])),
                  st)

\* CancaoHandler.UpdateCancao
UpdateCancao(request, st, env) ==
    LET a == Atoi(AsString(request.PathParameters, "id"))
        r == CancaoRepo_GetByID(st, a.n, env.dbErr, Related(env))
        u == UnmarshalCancao(request.Body)
        existingCancao == [r.cancao EXCEPT !.Nome = u.cancao.Nome,
                                           !.UserID = u.cancao.UserID,
                                           !.UpdatedAt = env.now]
        w == CancaoRepo_Update(st, existingCancao, env.now, env.createErr)
        meta == MetaID("UpdateCancao", "cancoes", a.n)
    IN  IF ~a.err.isNil
        THEN Plan(<<Log("Error", "Invalid cancao ID", a.err,
                        Meta("UpdateCancao", "cancoes"))>>,
                  createErrorResponse(400, "Invalid cancao ID"), st)
        ELSE IF ~r.err.isNil
        THEN Plan(Reads(st, r.stmts)
                  \o <<Log("Error", "Error getting cancao", r.err, meta)>>,
                  createErrorResponse(500, "Error getting cancao"), st)
        ELSE IF ~r.found
        THEN Plan(Reads(st, r.stmts)
                  \o <<Log("Warn", "Cancao not found", NilErr, meta)>>,
                  createErrorResponse(404, "Cancao not found"), st)
        ELSE IF ~u.err.isNil
        THEN Plan(Reads(st, r.stmts)
                  \o <<Log("Error", "Invalid request body", u.err, meta)>>,
                  createErrorResponse(400, "Invalid request body"), st)
        ELSE IF u.cancao.Nome = ""
        THEN Plan(Reads(st, r.stmts)
                  \o <<Log("Warn", "Invalid cancao data: nome is required",
                           NilErr, meta)>>,
                  createErrorResponse(400, "Nome is required"), st)
        ELSE IF ~w.err.isNil
        THEN Plan(Reads(st, r.stmts) \o Stmt(w)
                  \o <<Log("Error", "Error updating cancao", w.err, meta)>>,
                  createErrorResponse(500, "Error updating cancao"), st)
        ELSE Plan(Reads(st, r.stmts) \o Stmt(w)
                  \o <<Log("Info", "Cancao updated successfully", NilErr,
                           meta)>>,
                  createJSONResponse(200, MarshalCancao(existingCancao)),
                  st)

\* CancaoHandler.DeleteCancao
DeleteCancao(request, st, env) ==
    LET a == Atoi(AsString(request.PathParameters, "id"))
        d == CancaoRepo_Delete(st, a.n, env.createErr)
        meta == MetaID("DeleteCancao", "cancoes", a.n)
    IN  IF ~a.err.isNil
        THEN Plan(<<Log("Error", "Invalid cancao ID", a.err,
                        Meta("DeleteCancao", "cancoes"))>>,
                  createErrorResponse(400, "Invalid cancao ID"), st)
        ELSE IF ~d.err.isNil
        THEN Plan(Stmt(d)
                  \o <<Log("Error", "Error deleting cancao", d.err, meta)>>,
                  createErrorResponse(500, "Error deleting cancao"), st)
        ELSE Plan(Stmt(d)
                  \o <<Log("Info", "Cancao deleted successfully", NilErr,
                           meta)>>,
                  NoContentResponse, st)

AddTagToCancao(request, st, env) ==
    AddLinkTo(CancaoFamily, "tag", request, st, Answer(env.tagErrs, 1))
AddRamoToCancao(request, st, env) ==
    AddLinkTo(CancaoFamily, "ramo", request, st, Answer(env.ramoErrs, 1))
RemoveTagFromCancao(request, st, env) ==
    RemoveLinkFrom(CancaoFamily, "tag", request, st, Answer(env.tagErrs, 1))
RemoveRamoFromCancao(request, st, env) ==
    RemoveLinkFrom(CancaoFamily, "ramo", request, st, Answer(env.ramoErrs, 1))

(***************************************************************************)
(* cmd/users/main.go: router.                                              *)
(***************************************************************************)
RouteOf(method, resource, handler) ==
    [method |-> method, resource |-> resource, handler |-> handler]

\* the switch on request.HTTPMethod and the comparisons of request.Resource
Routes ==
    {RouteOf("GET", "/users", "ListUsers"),
     RouteOf("GET", "/users/{id}", "GetUser"),
     RouteOf("GET", "/cancoes", "ListCancoes"),
     RouteOf("GET", "/cancoes/{id}", "GetCancao"),
     RouteOf("GET", "/lugares", "ListLugares"),
     RouteOf("GET", "/lugares/{id}", "GetLugar"),
     RouteOf("GET", "/lugares/{id}/ratings", "GetRatingsForLugar"),
     RouteOf("POST", "/users", "CreateUser"),
     RouteOf("POST", "/cancoes", "CreateCancao"),
     RouteOf("POST", "/cancoes/{id}/tags", "AddTagToCancao"),
     RouteOf("POST", "/cancoes/{id}/ramos", "AddRamoToCancao"),
     RouteOf("POST", "/lugares", "CreateLugar"),
     RouteOf("POST", "/lugares/{id}/images", "AddImageToLugar"),
     RouteOf("POST", "/lugares/{id}/tags", "AddTagToLugar"),
     RouteOf("POST", "/lugares/{id}/ramos", "AddRamoToLugar"),
     RouteOf("POST", "/lugares/{id}/ratings", "AddRatingToLugar"),
     RouteOf("PUT", "/users/{id}", "UpdateUser"),
     RouteOf("PUT", "/cancoes/{id}", "UpdateCancao"),
     RouteOf("PUT", "/lugares/{id}", "UpdateLugar"),
     RouteOf("PUT", "/lugares/{id}/ratings/{ratingId}", "UpdateRatingForLugar"),
     RouteOf("DELETE", "/users/{id}", "DeleteUser"),
     RouteOf("DELETE", "/cancoes/{id}", "DeleteCancao"),
     RouteOf("DELETE", "/cancoes/{id}/tags/{tagId}", "RemoveTagFromCancao"),
     RouteOf("DELETE", "/cancoes/{id}/ramos/{ramoId}", "RemoveRamoFromCancao"),
     RouteOf("DELETE", "/lugares/{id}", "DeleteLugar"),
     RouteOf("DELETE", "/lugares/{id}/images/{imageId}", "DeleteImageFromLugar"),
     RouteOf("DELETE", "/lugares/{id}/tags/{tagId}", "RemoveTagFromLugar"),
     RouteOf("DELETE", "/lugares/{id}/ramos/{ramoId}", "RemoveRamoFromLugar"),
     RouteOf("DELETE", "/lugares/{id}/ratings/{ratingId}",
             "DeleteRatingFromLugar")}

\* a router that compares the resource and not the method
Route_IgnoresMethod(request) ==
    LET m == {x \in Routes : x.resource = request.Resource}
    IN  IF m = {} THEN "" ELSE (CHOOSE x \in m : TRUE).handler

\* the handler the request is dispatched to, "" when no route matches
Route(request) ==
    LET m == {x \in Routes : /\ x.method = request.HTTPMethod
                             /\ x.resource = request.Resource}
    IN  IF m = {} THEN "" ELSE (CHOOSE x \in m : TRUE).handler

\* "Add request ID to context": the context the handlers are given.  The
\* header is looked up in the map request.Headers under the key
\* "x-request-id"; no other value is added to the context
RouterContext(request) ==
    IF HasKey(request.Headers, "x-request-id")
    THEN MapOf({KV("requestID", Lookup(request.Headers, "x-request-id"))})
    ELSE MapOf({})

\* a router that hands the Lambda runtime an error when no route matches
NotFoundResponse_AsError == FunctionError(ErrOf("Not Found"))

\* "Return 404 if no route matches"
NotFoundResponse ==
    [StatusCode |-> 404,
     Headers |-> MapOf({KV("Content-Type", StrVal("application/json"))}),
     Body |-> "{" \o Quote("error") \o ":" \o Quote("Not Found") \o "}",
     err |-> NilErr]

\* the handlers of the router
Handlers == {x.handler : x \in Routes}

\* the handler named h, run on the request: the severity methods it calls,
\* in order, the response it returns and the tables it leaves
Dispatch(h, request, st, env) ==
    IF h = "ListUsers" THEN ListUsers(st, env.dbErr)
    ELSE IF h = "GetUser" THEN GetUser(request, st, env.dbErr)
    ELSE IF h = "CreateUser"
    THEN CreateUser(request, st, env.now, env.createErr)
    ELSE IF h = "UpdateUser"
    THEN UpdateUser(request, st, env.now, env.dbErr, env.createErr)
    ELSE IF h = "DeleteUser" THEN DeleteUser(request, st, env.createErr)
    ELSE IF h = "ListCancoes" THEN ListCancoes(st, env)
    ELSE IF h = "GetCancao" THEN GetCancao(request, st, env)
    ELSE IF h = "CreateCancao" THEN CreateCancao(request, st, env)
    ELSE IF h = "UpdateCancao" THEN UpdateCancao(request, st, env)
    ELSE IF h = "DeleteCancao" THEN DeleteCancao(request, st, env)
    ELSE IF h = "AddTagToCancao" THEN AddTagToCancao(request, st, env)
    ELSE IF h = "AddRamoToCancao" THEN AddRamoToCancao(request, st, env)
    ELSE IF h = "RemoveTagFromCancao"
    THEN RemoveTagFromCancao(request, st, env)
    ELSE IF h = "RemoveRamoFromCancao"
    THEN RemoveRamoFromCancao(request, st, env)
    ELSE IF h = "ListLugares" THEN ListLugares(st, env)
    ELSE IF h = "GetLugar" THEN GetLugar(request, st, env)
    ELSE IF h = "CreateLugar" THEN CreateLugar(request, st, env)
    ELSE IF h = "UpdateLugar" THEN UpdateLugar(request, st, env)
    ELSE IF h = "DeleteLugar" THEN DeleteLugar(request, st, env)
    ELSE IF h = "AddImageToLugar" THEN AddImageToLugar(request, st, env)
    ELSE IF h = "DeleteImageFromLugar"
    THEN DeleteImageFromLugar(request, st, env)
    ELSE IF h = "AddTagToLugar" THEN AddTagToLugar(request, st, env)
    ELSE IF h = "AddRamoToLugar" THEN AddRamoToLugar(request, st, env)
    ELSE IF h = "RemoveTagFromLugar" THEN RemoveTagFromLugar(request, st, env)
    ELSE IF h = "RemoveRamoFromLugar"
    THEN RemoveRamoFromLugar(request, st, env)
    ELSE IF h = "GetRatingsForLugar" THEN GetRatingsForLugar(request, st, env)
    ELSE IF h = "AddRatingToLugar" THEN AddRatingToLugar(request, st, env)
    ELSE IF h = "UpdateRatingForLugar"
    THEN UpdateRatingForLugar(request, st, env)
    ELSE IF h = "DeleteRatingFromLugar"
    THEN DeleteRatingFromLugar(request, st, env)
    ELSE Plan(<<>>, NotFoundResponse, st)

\* router: the context it builds, the severity methods the handler calls
\* with it, in order, the response and the tables
router(request, st, env) ==
    [ctx |-> RouterContext(request)] @@ Dispatch(Route(request), request, st, env)

(***************************************************************************)
(* Inputs of the model.                                                    *)
(***************************************************************************)
SeqsUpTo(S, n) == UNION {[1..k -> S] : k \in 0..n}

\* every composite over the two sinks, of at most MaxSinks sinks
Configs == SeqsUpTo({cloudWatchLogger, dbLogger}, MaxSinks)

Messages == {"boom"}

Errors == {NilErr, ErrOf("context deadline exceeded")}

\* the maps handlers pass, and maps the interface also admits
MetadataMaps ==
    {NilMap,
     MapOf({}),
     MapOf({KV("action", StrVal("CreateUser")), KV("resource", StrVal("users")),
            KV("resource_id", StrVal("42"))}),
     MapOf({KV("resource", IntVal(7)), KV("resource_id", StrVal("42")),
            KV("attempt", IntVal(3))}),
     MapOf({KV("action", StrVal("GetUser")), KV("resource", StrVal("")),
            KV("resource_id", IntVal(42))}),
     MapOf({KV("action", StrVal("CreateUser")), KV("resource", StrVal("users")),
            KV("handle", ChanVal)})}

\* the variadic metadata argument: omitted, or one map
MetadataArgs == {<<>>} \cup {<<m>> : m \in MetadataMaps}

\* the context a handler passes on: bare, or carrying a request id and a
\* user id
Contexts ==
    {MapOf({}),
     MapOf({KV("requestID", StrVal("req-1")), KV("userID", IntVal(7))})}

\* the contexts the extraction functions accept: none, one without the keys,
\* one holding values of the asserted types, ones holding values of other
\* types
ExtractContexts ==
    {NilMap,
     MapOf({}),
     MapOf({KV("requestID", StrVal("req-1")), KV("userID", IntVal(7))}),
     MapOf({KV("requestID", StrVal("req-1"))}),
     MapOf({KV("requestID", IntVal(5)), KV("userID", StrVal("7"))}),
     MapOf({KV("requestID", StrVal("")), KV("userID", IntVal(0))})}

\* what the CloudWatch client and the database driver may answer
ClientErrors == {NilErr, ErrOf("operation error CloudWatch: PutMetricData")}
ExecErrors == {NilErr, ErrOf("pq: connection refused")}

\* a row stored by an earlier invocation
PriorRow ==
    DBLogger_Log(dbLogger, "Info", 0, MapOf({}), "Users listed successfully",
                 NilErr,
                 <<MapOf({KV("action", StrVal("ListUsers")),
                          KV("resource", StrVal("users"))})>>,
                 {}, NilErr, NilErr).rows[1]

NoFrame ==
    [method |-> "", ctx |-> NilMap, message |-> "", err |-> NilErr,
     metadata |-> <<>>, rows0 |-> 0, puts0 |-> 0, out0 |-> 0,
     stmt |-> NilErr]

Init ==
    /\ loggers \in Configs
    /\ pc = "idle"
    /\ idx = 0
    /\ delivered = <<>>
    /\ built = <<>>
    /\ clock = 0
    /\ \/ tables = {} /\ rows = <<>>
       \/ tables = {dbLogger.tableName} /\ rows = <<PriorRow>>
    /\ puts = <<>>
    /\ stdout = <<>>
    /\ frame = [NoFrame EXCEPT !.rows0 = Len(rows)]
    /\ store = InitialStore
    /\ rq = <<>>
    /\ trace = <<>>

\* a handler calls a severity method of the composite logger
Call(method, ctx, message, err, metadata) ==
    /\ pc = "idle"
    /\ pc' = "fanout"
    /\ frame' = [method |-> method, ctx |-> ctx, message |-> message,
                 err |-> err, metadata |-> metadata,
                 rows0 |-> Len(rows), puts0 |-> Len(puts), out0 |-> Len(stdout),
                 stmt |-> NilErr]
    /\ idx' = 1
    /\ delivered' = <<>>
    /\ built' = <<>>
    /\ UNCHANGED <<loggers, clock, tables, rows, puts, stdout, store, rq, trace>>

\* a loop body that forwards Warn to the sink's Info
Downstream_WarnAsInfo ==
    [sink |-> idx, kind |-> loggers[idx].kind,
     method |-> IF frame.method = "Warn" THEN "Info" ELSE frame.method,
     ctx |-> frame.ctx, message |-> frame.message, err |-> frame.err,
     metadata |-> frame.metadata]

\* the downstream call the loop makes on loggers[idx]
Downstream ==
    [sink |-> idx, kind |-> loggers[idx].kind, method |-> frame.method,
     ctx |-> frame.ctx, message |-> frame.message, err |-> frame.err,
     metadata |-> frame.metadata]

\* the loop made its call on loggers[idx], whose first statement built entry
Delivered(entry) ==
    /\ delivered' = Append(delivered, Downstream)
    /\ built' = Append(built, entry)

\* where the loop stands after the call on loggers[idx] had effects eff
AfterSink(eff) ==
    /\ stdout' = stdout \o eff.out
    /\ IF ~eff.raised.isNil
       THEN pc' = "raised" /\ idx' = idx
       ELSE pc' = "fanout" /\ idx' = CompositeNext(loggers, idx, eff)

\* the loop calls the severity method of a metrics sink, which builds its
\* entry, serializes it and sends the PutMetricData request; an entry that
\* cannot be serialized is answered with a line and the call is over
CallCloudWatch(now, clientErr) ==
    /\ pc = "fanout"
    /\ idx <= Len(loggers)
    /\ loggers[idx].kind = "cw"
    /\ clock' = now
    /\ LET d == Downstream
           eff == CloudWatchLogger_Log(loggers[idx], d.method, now, d.ctx,
                      d.message, d.err, d.metadata, clientErr)
       IN  /\ puts' = puts \o [i \in 1..Len(eff.puts) |->
                                  [sink |-> idx, request |-> eff.puts[i].request,
                                   failed |-> eff.puts[i].failed,
                                   err |-> eff.puts[i].err]]
           /\ Delivered(eff.entry)
           /\ IF eff.puts = <<>>
              THEN AfterSink(eff)
              ELSE /\ pc' = IF Len(eff.out) = 2 THEN "printf" ELSE "println"
                   /\ idx' = idx
                   /\ stdout' = stdout
    /\ UNCHANGED <<loggers, frame, tables, rows, store, rq, trace>>

\* the request has returned an error: the metrics sink prints it
\* (fmt.Printf)
CallCloudWatchPrintf ==
    /\ pc = "printf"
    /\ LET eff == logToCloudWatch(loggers[idx], frame.ctx, built[Len(built)],
                                  puts[Len(puts)].err)
       IN  stdout' = Append(stdout, eff.out[1])
    /\ pc' = "println"
    /\ UNCHANGED <<loggers, frame, idx, delivered, built, clock, tables, rows,
                   puts, store, rq, trace>>

\* the metrics sink prints the JSON line of the entry (fmt.Println) and
\* returns to the loop
CallCloudWatchPrintln ==
    /\ pc = "println"
    /\ LET eff == logToCloudWatch(loggers[idx], frame.ctx, built[Len(built)],
                                  puts[Len(puts)].err)
       IN  /\ stdout' = Append(stdout, eff.out[Len(eff.out)])
           /\ pc' = "fanout"
           /\ idx' = CompositeNext(loggers, idx, eff)
    /\ UNCHANGED <<loggers, frame, delivered, built, clock, tables, rows,
                   puts, store, rq, trace>>

\* the loop calls the severity method of a database sink, which builds its
\* entry and runs the CREATE TABLE IF NOT EXISTS statement, to which the
\* connection answers ensureErr; when ExecContext panics the call never
\* returns
CallDBEnsure(now, ensureErr) ==
    /\ pc = "fanout"
    /\ idx <= Len(loggers)
    /\ loggers[idx].kind = "db"
    /\ clock' = now
    /\ LET d == Downstream
           eff == DBLogger_Log(loggers[idx], d.method, now, d.ctx,
                      d.message, d.err, d.metadata, tables, ensureErr,
                      NilErr)
       IN  /\ tables' = tables \cup eff.created
           /\ Delivered(eff.entry)
           /\ IF ~eff.raised.isNil
              THEN AfterSink(eff) /\ frame' = frame
              ELSE /\ pc' = IF ensureErr.isNil THEN "insert"
                            ELSE "ensureprintf"
                   /\ idx' = idx
                   /\ stdout' = stdout
                   /\ frame' = [frame EXCEPT !.stmt = ensureErr]
    /\ UNCHANGED <<loggers, rows, puts, store, rq, trace>>

\* the table statement has returned an error: the database sink prints it
\* (fmt.Printf) and returns to the loop
CallDBEnsurePrintf ==
    /\ pc = "ensureprintf"
    /\ AfterSink(logToDB(loggers[idx], frame.ctx, built[Len(built)], tables,
                         frame.stmt, NilErr))
    /\ UNCHANGED <<loggers, frame, delivered, built, clock, tables, rows,
                   puts, store, rq, trace>>

\* the database sink goes on after the table statement: it serializes the
\* metadata of the entry it built, printing a line if it cannot, and runs
\* the INSERT, to which the connection answers insertErr
CallDBInsert(insertErr) ==
    /\ pc = "insert"
    /\ LET eff == logToDB(loggers[idx], frame.ctx, built[Len(built)], tables,
                          NilErr, insertErr)
       IN  IF InsertRuns(built[Len(built)]) /\ eff.rows = <<>>
           THEN /\ pc' = "insertprintf"
                /\ idx' = idx
                /\ rows' = rows
                /\ stdout' = stdout
                /\ frame' = [frame EXCEPT !.stmt = insertErr]
           ELSE /\ rows' = rows \o eff.rows
                /\ AfterSink(eff)
                /\ frame' = frame
    /\ UNCHANGED <<loggers, delivered, built, clock, tables, puts, store, rq,
                   trace>>

\* the INSERT has returned an error: the database sink prints it
\* (fmt.Printf) and returns to the loop
CallDBInsertPrintf ==
    /\ pc = "insertprintf"
    /\ AfterSink(logToDB(loggers[idx], frame.ctx, built[Len(built)], tables,
                         NilErr, frame.stmt))
    /\ UNCHANGED <<loggers, frame, delivered, built, clock, tables, rows,
                   puts, store, rq, trace>>

\* the loop is over: the severity method returns to the handler
Return ==
    /\ pc = "fanout"
    /\ idx > Len(loggers)
    /\ pc' = "returned"
    /\ UNCHANGED <<loggers, frame, idx, delivered, built, clock, tables, rows,
                   puts, stdout, store, rq, trace>>

\* the instants time.Now() may return: the wall clock, which may stand
\* still, advance or be set back between two readings
Nows == 0..MaxClock

Next ==
    \/ \E method \in Methods, ctx \in Contexts, message \in Messages,
          err \in Errors, metadata \in MetadataArgs :
          /\ (method \notin ErrMethods => err = NilErr)
          /\ Call(method, ctx, message, err, metadata)
    \/ \E now \in Nows, clientErr \in ClientErrors : CallCloudWatch(now, clientErr)
    \/ CallCloudWatchPrintf
    \/ CallCloudWatchPrintln
    \/ \E now \in Nows, ensureErr \in ExecErrors : CallDBEnsure(now, ensureErr)
    \/ CallDBEnsurePrintf
    \/ \E insertErr \in ExecErrors : CallDBInsert(insertErr)
    \/ CallDBInsertPrintf
    \/ Return

Spec == Init /\ [][Next]_vars

(***************************************************************************)
(* The same call, made with every kind of context a caller can hand in:    *)
(* none, one without the keys, ones with values of the asserted types and  *)
(* of other types.                                                         *)
(***************************************************************************)
\* the metadata of the calls made: omitted, or the map of a handler
EntryMetadataArgs ==
    {<<>>,
     <<MapOf({KV("action", StrVal("CreateUser")),
              KV("resource", StrVal("users")),
              KV("resource_id", StrVal("42"))})>>}

EntryNext ==
    \/ \E method \in Methods, ctx \in ExtractContexts, message \in Messages,
          err \in Errors, metadata \in EntryMetadataArgs :
          /\ (method \notin ErrMethods => err = NilErr)
          /\ Call(method, ctx, message, err, metadata)
    \/ \E now \in Nows, clientErr \in ClientErrors : CallCloudWatch(now, clientErr)
    \/ CallCloudWatchPrintf
    \/ CallCloudWatchPrintln
    \/ \E now \in Nows, ensureErr \in ExecErrors : CallDBEnsure(now, ensureErr)
    \/ CallDBEnsurePrintf
    \/ \E insertErr \in ExecErrors : CallDBInsert(insertErr)
    \/ CallDBInsertPrintf
    \/ Return

EntrySpec == Init /\ [][EntryNext]_vars

(***************************************************************************)
(* Invocations of router: each runs its handler, whose calls of the        *)
(* process-wide logger run the sinks statement by statement, interleaved   *)
(* with the statements of the other invocations.  The clock stands still.  *)
(***************************************************************************)
HeaderMaps ==
    {MapOf({}),
     MapOf({KV("x-request-id", StrVal("req-1"))}),
     MapOf({KV("X-Request-Id", StrVal("req-1"))})}

Principals == {0, 7}

\* the path parameters drawn: the id of a stored row, another id, and a
\* text that is no number
PlaceIDs == {"1", "3", "abc"}
OwnerIDs == {"1", "2", "abc"}

\* a request the authorizer attached no user to, without headers
Plain(method, resource, id, body) ==
    Request(method, resource, MapOf({}), id, body, 0)

UserRequests ==
    {Plain("GET", "/users", "", "")}
    \cup {Plain("GET", "/users/{id}", id, "") : id \in {"42", "7", "abc"}}
    \cup {Plain("POST", "/users", "", b) :
            b \in {"{", "{}"}
                  \cup {UserBody(x[1], x[2], x[3]) : x \in UserFields}}
    \cup {Plain("PUT", "/users/{id}", id, b) :
            id \in {"42", "7", "abc"},
            b \in {"{", UserBody("bia", "senha", "write"),
                   UserBody("bia", "", "write")}}
    \cup {Plain("DELETE", "/users/{id}", id, "") : id \in {"42", "7", "abc"}}

\* the requests on the tags and the ramos of a place or a song
LinkRequests(base) ==
    UNION {{Plain("POST", base \o "/{id}/" \o kind \o "s", id, b) :
               id \in PlaceIDs,
               b \in {"{", LinkBody(kind, 1), LinkBody(kind, 2)}}
           \cup {SubRequest("DELETE",
                            base \o "/{id}/" \o kind \o "s/{" \o kind \o "Id}",
                            id, kind \o "Id", sub, "") :
                    id \in {"1", "abc"}, sub \in {"1", "2", "abc"}}
           : kind \in {"tag", "ramo"}}

LugarRequests ==
    {Plain("GET", "/lugares", "", "")}
    \cup {Plain("GET", "/lugares/{id}", id, "") : id \in PlaceIDs}
    \cup {Plain("POST", "/lugares", "", LugarBodyWith(0, 0, 42, "Sede", k, t, r)) :
            k \in 0..MaxImages, t \in 0..MaxTags, r \in 0..MaxTags}
    \cup {Plain("POST", "/lugares", "", b) :
            b \in {"{", "{}", LugarBodyWith(0, 0, 0, "Sede", 0, 0, 0)}}
    \cup {Plain("PUT", "/lugares/{id}", id, b) :
            id \in PlaceIDs,
            b \in {"{", "{}", LugarBodyWith(2, 5, 42, "Sede", 0, 0, 0),
                   LugarBodyWith(0, 0, 42, "Sede", 0, 0, 0),
                   LugarBodyWith(0, 0, 0, "Sede", 0, 0, 0)}}
    \cup {Plain("DELETE", "/lugares/{id}", id, "") : id \in PlaceIDs}
    \cup {Plain("POST", "/lugares/{id}/images", id, b) :
            id \in PlaceIDs, b \in {"{", ImageBody("nova.png")}}
    \cup {SubRequest("DELETE", "/lugares/{id}/images/{imageId}", id,
                     "imageId", sub, "") :
            id \in OwnerIDs, sub \in PlaceIDs}
    \cup LinkRequests("/lugares")
    \cup {Plain("GET", "/lugares/{id}/ratings", id, "") : id \in PlaceIDs}
    \cup {Plain("POST", "/lugares/{id}/ratings", id, b) :
            id \in {"1", "2", "3", "abc"},
            b \in {"{", "{}", RatingBody(0, 5)}
                  \cup {RatingBody(42, n) : n \in RatingValues}}
    \cup {SubRequest("PUT", "/lugares/{id}/ratings/{ratingId}", id,
                     "ratingId", sub, b) :
            id \in OwnerIDs, sub \in PlaceIDs,
            b \in {"{"} \cup {RatingBody(42, n) : n \in RatingValues}}
    \cup {SubRequest("DELETE", "/lugares/{id}/ratings/{ratingId}", id,
                     "ratingId", sub, "") :
            id \in OwnerIDs, sub \in PlaceIDs}

CancaoRequests ==
    {Plain("GET", "/cancoes", "", "")}
    \cup {Plain("GET", "/cancoes/{id}", id, "") : id \in PlaceIDs}
    \cup {Plain("POST", "/cancoes", "", CancaoBodyWith(0, 0, 42, "Canto", t, r)) :
            t \in 0..MaxTags, r \in 0..MaxTags}
    \cup {Plain("POST", "/cancoes", "", b) : b \in {"{", "{}"}}
    \cup {Plain("PUT", "/cancoes/{id}", id, b) :
            id \in PlaceIDs,
            b \in {"{", "{}", CancaoBodyWith(2, 5, 42, "Canto", 0, 0),
                   CancaoBodyWith(0, 0, 42, "Canto", 0, 0)}}
    \cup {Plain("DELETE", "/cancoes/{id}", id, "") : id \in PlaceIDs}
    \cup LinkRequests("/cancoes")

\* the requests of an invocation that runs alone
Requests ==
    {Request("GET", "/users/{id}", h, id, "", u) :
        h \in HeaderMaps, id \in {"42", "7", "abc"}, u \in Principals}
    \cup {Request("POST", "/lugares", h, "", b, u) :
            h \in HeaderMaps,
            b \in {"{", "{}"} \cup {LugarBody("Sede", k) : k \in 0..MaxImages},
            u \in Principals}
    \cup {Request("GET", "/nothing", h, "", "", u) :
            h \in HeaderMaps, u \in Principals}

\* requests on every route of the router, and some no route matches
ApiRequests ==
    UserRequests \cup LugarRequests \cup CancaoRequests
    \cup {Plain("GET", "/nothing", "", ""), Plain("PATCH", "/users", "", ""),
          Plain("POST", "/users/{id}", "42", "{}"),
          Plain("GET", "/lugares/{id}/images", "1", "")}

\* the request of invocation r when several run together
ConcurrentRequest(r) ==
    Request("GET", "/users/{id}",
            MapOf({KV("x-request-id", StrVal("req-" \o ToString(r)))}),
            IF r = 1 THEN "42" ELSE "7", "", 7)

NewInvocation ==
    [pc |-> "new", request |-> Request("", "", NilMap, "", "", 0),
     ctx |-> NilMap, todo |-> <<>>, made |-> <<>>, call |-> 0, idx |-> 0,
     entry |-> <<>>, put |-> 0, stmt |-> NilErr,
     planned |-> NotFoundResponse, resp |-> <<>>]

\* the variables of a call made outside an invocation
single == <<loggers, pc, frame, idx, delivered, built, clock>>

\* an entry of trace: call k of invocation r was entered ("call") or left
\* ("return"), or made request n of puts ("put"), ran the table statement,
\* which the connection accepted (n = 1) or not (n = 0) ("create"), stored
\* row n of rows ("insert") or printed line n of stdout ("line")
Event(r, k, kind, n) == [req |-> r, k |-> k, kind |-> kind, n |-> n]

\* the lines out, printed by call k of invocation r
LineEvents(r, k, out) ==
    [i \in 1..Len(out) |-> Event(r, k, "line", Len(stdout) + i)]

RequestInit(n) ==
    /\ loggers = MainLoggers
    /\ pc = "idle"
    /\ idx = 0
    /\ delivered = <<>>
    /\ built = <<>>
    /\ clock = 0
    /\ puts = <<>>
    /\ stdout = <<>>
    /\ \/ tables = {} /\ rows = <<>>
       \/ tables = {dbLogger.tableName} /\ rows = <<PriorRow>>
    /\ frame = [NoFrame EXCEPT !.rows0 = Len(rows)]
    /\ store = InitialStore
    /\ rq = [r \in 1..n |-> NewInvocation]
    /\ trace = <<>>

HandlerInit == RequestInit(1)
ConcurrentInit == RequestInit(MaxRequests)

\* the Lambda runtime calls router, which builds the context and enters the
\* handler; the handler runs up to its first statement or its first call of
\* the logger.  The steps ahead of the handler are those it takes on the
\* tables as they stand, with the answers env of the connection: in these
\* specifications no other invocation writes the tables meanwhile
Invoke(r, request, env) ==
    /\ rq[r].pc = "new"
    /\ \E p \in {router(request, store, env)} :
           rq' = [rq EXCEPT ![r] =
                    [@ EXCEPT !.pc = "handler", !.request = request,
                              !.ctx = p.ctx, !.todo = p.steps,
                              !.planned = p.resp]]
    /\ UNCHANGED <<tables, rows, puts, stdout, trace, single, store>>

\* the handler sends its next statement to the database: one round trip of
\* a repository method
HandlerStatement(r) ==
    /\ rq[r].pc = "handler"
    /\ rq[r].todo # <<>>
    /\ Head(rq[r].todo).db # <<>>
    /\ store' = Head(rq[r].todo).db[1]
    /\ rq' = [rq EXCEPT ![r] = [@ EXCEPT !.todo = Tail(@)]]
    /\ UNCHANGED <<tables, rows, puts, stdout, trace, single>>

\* a composite logger whose severity methods start a goroutine for the loop
\* over the sinks and return at once: the handler goes on, and the loops of
\* the calls made run one at a time, in the order the scheduler picks
HandlerCall_Go(r) ==
    /\ rq[r].pc = "handler"
    /\ \/ /\ rq[r].todo # <<>>
          /\ Head(rq[r].todo).log # <<>>
          /\ rq' = [rq EXCEPT ![r] =
                      [@ EXCEPT !.made = Append(@, Head(rq[r].todo).log[1]),
                                !.todo = Tail(@)]]
          /\ trace' = Append(trace, Event(r, Len(rq[r].made) + 1, "call", 0))
       \/ \E k \in 1..Len(rq[r].made) :
             /\ \A j \in 1..Len(trace) :
                   ~(trace[j].req = r /\ trace[j].k = k
                     /\ trace[j].kind = "return")
             /\ rq' = [rq EXCEPT ![r] =
                         [@ EXCEPT !.pc = "sink", !.idx = 1, !.call = k]]
             /\ trace' = trace
    /\ UNCHANGED <<tables, rows, puts, stdout, single, store>>

\* the handler calls a severity method of the composite logger, which
\* enters its loop over the sinks
HandlerCall(r) ==
    /\ rq[r].pc = "handler"
    /\ rq[r].todo # <<>>
    /\ Head(rq[r].todo).log # <<>>
    /\ rq' = [rq EXCEPT ![r] =
                [@ EXCEPT !.pc = "sink", !.idx = 1,
                          !.made = Append(@, Head(rq[r].todo).log[1]),
                          !.call = Len(rq[r].made) + 1,
                          !.todo = Tail(@)]]
    /\ trace' = Append(trace, Event(r, Len(rq[r].made) + 1, "call", 0))
    /\ UNCHANGED <<tables, rows, puts, stdout, single, store>>

\* the call of the logger whose loop over the sinks invocation r is in
CurrentCall(r) == rq[r].made[rq[r].call]

\* a loop body that ends with a return statement
AfterSinkOf_ReturnsInsideLoop(r, eff) ==
    [rq[r] EXCEPT !.pc = "sink", !.entry = <<>>, !.put = 0,
                  !.stmt = NilErr, !.idx = Len(loggers) + 1]

\* where invocation r stands after a sink call with effects eff
AfterSinkOf(r, eff) ==
    IF ~eff.raised.isNil
    THEN [rq[r] EXCEPT !.pc = "done", !.resp = <<FunctionError(eff.raised)>>]
    ELSE [rq[r] EXCEPT !.pc = "sink", !.entry = <<>>, !.put = 0,
                       !.stmt = NilErr,
                       !.idx = CompositeNext(loggers, @, eff)]

\* the loop calls the severity method of the metrics sink, which builds its
\* entry, serializes it and sends the PutMetricData request; an entry that
\* cannot be serialized is answered with a line and the call is over
SinkCloudWatch(r, clientErr) ==
    /\ rq[r].pc = "sink"
    /\ rq[r].idx <= Len(loggers)
    /\ loggers[rq[r].idx].kind = "cw"
    /\ LET c == CurrentCall(r)
           eff == CloudWatchLogger_Log(loggers[rq[r].idx], c.method, clock,
                      rq[r].ctx, c.message, c.err, c.metadata, clientErr)
       IN  /\ puts' = puts \o [i \in 1..Len(eff.puts) |->
                                  [sink |-> rq[r].idx,
                                   request |-> eff.puts[i].request,
                                   failed |-> eff.puts[i].failed,
                                   err |-> eff.puts[i].err]]
           /\ IF eff.puts = <<>>
              THEN /\ stdout' = stdout \o eff.out
                   /\ trace' = trace \o LineEvents(r, rq[r].call, eff.out)
                   /\ rq' = [rq EXCEPT ![r] = AfterSinkOf(r, eff)]
              ELSE /\ stdout' = stdout
                   /\ trace' = Append(trace, Event(r, rq[r].call, "put",
                                                   Len(puts) + 1))
                   /\ rq' = [rq EXCEPT ![r] =
                               [@ EXCEPT !.pc = IF Len(eff.out) = 2
                                                THEN "printf" ELSE "println",
                                         !.entry = <<eff.entry>>,
                                         !.put = Len(puts) + 1]]
    /\ UNCHANGED <<tables, rows, single, store>>

\* a database sink that keeps the entry of the call in progress in a field
\* all invocations share
SavedEntry_Shared(r) ==
    IF rq[1].pc = "insert" THEN rq[1].entry[1] ELSE rq[r].entry[1]

\* the local variable entry of the severity method invocation r is in
SavedEntry(r) == rq[r].entry[1]

\* the request of invocation r has returned an error: the metrics sink
\* prints it (fmt.Printf)
SinkCloudWatchPrintf(r) ==
    /\ rq[r].pc = "printf"
    /\ LET eff == logToCloudWatch(loggers[rq[r].idx], rq[r].ctx,
                                  SavedEntry(r), puts[rq[r].put].err)
       IN  /\ stdout' = Append(stdout, eff.out[1])
           /\ trace' = trace \o LineEvents(r, rq[r].call, <<eff.out[1]>>)
    /\ rq' = [rq EXCEPT ![r] = [@ EXCEPT !.pc = "println"]]
    /\ UNCHANGED <<tables, rows, puts, single, store>>

\* the metrics sink prints the JSON line of the entry (fmt.Println) and
\* returns to the loop
SinkCloudWatchPrintln(r) ==
    /\ rq[r].pc = "println"
    /\ LET eff == logToCloudWatch(loggers[rq[r].idx], rq[r].ctx,
                                  SavedEntry(r), puts[rq[r].put].err)
       IN  /\ stdout' = Append(stdout, eff.out[Len(eff.out)])
           /\ trace' = trace \o LineEvents(r, rq[r].call,
                                            <<eff.out[Len(eff.out)]>>)
           /\ rq' = [rq EXCEPT ![r] = AfterSinkOf(r, eff)]
    /\ UNCHANGED <<tables, rows, puts, single, store>>

\* the loop calls the severity method of the database sink, which builds
\* its entry and runs the CREATE TABLE IF NOT EXISTS statement, to which
\* the connection answers ensureErr
SinkDBEnsure(r, ensureErr) ==
    /\ rq[r].pc = "sink"
    /\ rq[r].idx <= Len(loggers)
    /\ loggers[rq[r].idx].kind = "db"
    /\ LET c == CurrentCall(r)
           l == loggers[rq[r].idx]
           entry == DBLogger_createLogEntry(l, clock, rq[r].ctx,
                        LevelOfMethod(c.method), c.message,
                        IF c.method \in ErrMethods THEN c.err ELSE NilErr,
                        c.metadata)
           e == ensureLogTable(l, rq[r].ctx, tables, ensureErr)
           create == Event(r, rq[r].call, "create",
                           IF ensureErr.isNil THEN 1 ELSE 0)
       IN  /\ tables' = tables \cup e.created
           /\ rq' = [rq EXCEPT ![r] =
                       [@ EXCEPT !.pc = IF e.err.isNil THEN "insert"
                                        ELSE "ensureprintf",
                                 !.entry = <<entry>>,
                                 !.stmt = ensureErr]]
           /\ trace' = Append(trace, create)
    /\ UNCHANGED <<rows, puts, stdout, single, store>>

\* the table statement of invocation r has returned an error: the database
\* sink prints it (fmt.Printf) and returns to the loop
SinkDBEnsurePrintf(r) ==
    /\ rq[r].pc = "ensureprintf"
    /\ LET eff == logToDB(loggers[rq[r].idx], rq[r].ctx, SavedEntry(r),
                          tables, rq[r].stmt, NilErr)
       IN  /\ stdout' = stdout \o eff.out
           /\ trace' = trace \o LineEvents(r, rq[r].call, eff.out)
           /\ rq' = [rq EXCEPT ![r] = AfterSinkOf(r, eff)]
    /\ UNCHANGED <<tables, rows, puts, single, store>>

\* the audit table after an INSERT: the rows in insertion order
TableAppend(stored, new) == stored \o new

\* the database sink goes on after the table statement: it serializes the
\* metadata, printing a line if it cannot, and runs the INSERT, to which
\* the connection answers insertErr
SinkDBInsert(r, insertErr) ==
    /\ rq[r].pc = "insert"
    /\ LET eff == logToDB(loggers[rq[r].idx], rq[r].ctx, SavedEntry(r),
                          tables, NilErr, insertErr)
       IN  IF InsertRuns(SavedEntry(r)) /\ eff.rows = <<>>
           THEN /\ rows' = rows
                /\ stdout' = stdout
                /\ trace' = trace
                /\ rq' = [rq EXCEPT ![r] =
                            [@ EXCEPT !.pc = "insertprintf",
                                      !.stmt = insertErr]]
           ELSE /\ rows' = TableAppend(rows, eff.rows)
                /\ stdout' = stdout \o eff.out
                /\ trace' = trace
                             \o [i \in 1..Len(eff.rows) |->
                                    Event(r, rq[r].call, "insert",
                                          Len(rows) + i)]
                             \o LineEvents(r, rq[r].call, eff.out)
                /\ rq' = [rq EXCEPT ![r] = AfterSinkOf(r, eff)]
    /\ UNCHANGED <<tables, puts, single, store>>

\* the INSERT of invocation r has returned an error: the database sink
\* prints it (fmt.Printf) and returns to the loop
SinkDBInsertPrintf(r) ==
    /\ rq[r].pc = "insertprintf"
    /\ LET eff == logToDB(loggers[rq[r].idx], rq[r].ctx, SavedEntry(r),
                          tables, NilErr, rq[r].stmt)
       IN  /\ stdout' = stdout \o eff.out
           /\ trace' = trace \o LineEvents(r, rq[r].call, eff.out)
           /\ rq' = [rq EXCEPT ![r] = AfterSinkOf(r, eff)]
    /\ UNCHANGED <<tables, rows, puts, single, store>>

\* the loop is over: the severity method returns to the handler
CallReturn(r) ==
    /\ rq[r].pc = "sink"
    /\ rq[r].idx > Len(loggers)
    /\ rq' = [rq EXCEPT ![r] = [@ EXCEPT !.pc = "handler", !.idx = 0]]
    /\ trace' = Append(trace, Event(r, rq[r].call, "return", 0))
    /\ UNCHANGED <<tables, rows, puts, stdout, single, store>>

\* a handler that answers 500 when a sink printed a failure
Respond_FailsWithSinks(r) ==
    /\ rq[r].pc = "handler"
    /\ rq[r].todo = <<>>
    /\ rq' = [rq EXCEPT ![r] =
                [@ EXCEPT !.pc = "done",
                          !.resp = IF \E j \in 1..Len(stdout) :
                                        stdout[j] \in
                                          {LineMetric(e) : e \in ClientErrors}
                                          \cup {LineEnsure(e) : e \in ExecErrors}
                                          \cup {LineInsert(e) : e \in ExecErrors}
                                   THEN <<createErrorResponse(500,
                                            "Error writing audit log")>>
                                   ELSE <<rq[r].planned>>]]
    /\ UNCHANGED <<tables, rows, puts, stdout, trace, single, store>>

\* the handler returns its response
Respond(r) ==
    /\ rq[r].pc = "handler"
    /\ rq[r].todo = <<>>
    /\ rq' = [rq EXCEPT ![r] =
                [@ EXCEPT !.pc = "done", !.resp = <<rq[r].planned>>]]
    /\ UNCHANGED <<tables, rows, puts, stdout, trace, single, store>>

\* what the repositories may answer during one invocation
Envs ==
    {Env(clock, dbErr, createErr, imageErrs, tagErrs, ramoErrs, ties) :
        dbErr \in ExecErrors, createErr \in ExecErrors,
        imageErrs \in [1..MaxImages -> ExecErrors],
        tagErrs \in [1..MaxTags -> ExecErrors],
        ramoErrs \in [1..MaxTags -> ExecErrors],
        ties \in {"asc", "desc"}}

\* the requests invocation r may carry
RequestsOf(r) ==
    IF Len(rq) = 1 THEN Requests ELSE {ConcurrentRequest(r)}

\* what the repositories may answer to invocation r; when several run
\* together the statements of the handlers succeed and those of the sinks
\* succeed or fail
EnvsOf(r) ==
    IF Len(rq) = 1 THEN Envs ELSE {env \in Envs : env.dbErr.isNil}

RequestNext ==
    \/ \E r \in DOMAIN rq :
          /\ rq[r].pc = "new"
          /\ \E request \in RequestsOf(r), env \in EnvsOf(r) :
                 Invoke(r, request, env)
    \/ \E r \in DOMAIN rq : HandlerStatement(r)
    \/ \E r \in DOMAIN rq : HandlerCall(r)
    \/ \E r \in DOMAIN rq, clientErr \in ClientErrors :
          SinkCloudWatch(r, clientErr)
    \/ \E r \in DOMAIN rq : SinkCloudWatchPrintf(r)
    \/ \E r \in DOMAIN rq : SinkCloudWatchPrintln(r)
    \/ \E r \in DOMAIN rq, ensureErr \in ExecErrors : SinkDBEnsure(r, ensureErr)
    \/ \E r \in DOMAIN rq : SinkDBEnsurePrintf(r)
    \/ \E r \in DOMAIN rq, insertErr \in ExecErrors : SinkDBInsert(r, insertErr)
    \/ \E r \in DOMAIN rq : SinkDBInsertPrintf(r)
    \/ \E r \in DOMAIN rq : CallReturn(r)
    \/ \E r \in DOMAIN rq : Respond(r)

HandlerSpec == HandlerInit /\ [][RequestNext]_vars
ConcurrentSpec == ConcurrentInit /\ [][RequestNext]_vars

\* one invocation, on any route of the router, against a database earlier
\* invocations have written to
ApiInit == RequestInit(1) /\ tables = {dbLogger.tableName}

ApiNext ==
    \/ \E r \in DOMAIN rq :
          /\ rq[r].pc = "new"
          /\ \E request \in ApiRequests, env \in Envs : Invoke(r, request, env)
    \/ \E r \in DOMAIN rq : HandlerStatement(r)
    \/ \E r \in DOMAIN rq : HandlerCall(r)
    \/ \E r \in DOMAIN rq, clientErr \in ClientErrors :
          SinkCloudWatch(r, clientErr)
    \/ \E r \in DOMAIN rq : SinkCloudWatchPrintf(r)
    \/ \E r \in DOMAIN rq : SinkCloudWatchPrintln(r)
    \/ \E r \in DOMAIN rq, ensureErr \in ExecErrors : SinkDBEnsure(r, ensureErr)
    \/ \E r \in DOMAIN rq : SinkDBEnsurePrintf(r)
    \/ \E r \in DOMAIN rq, insertErr \in ExecErrors : SinkDBInsert(r, insertErr)
    \/ \E r \in DOMAIN rq : SinkDBInsertPrintf(r)
    \/ \E r \in DOMAIN rq : CallReturn(r)
    \/ \E r \in DOMAIN rq : Respond(r)

ApiSpec == ApiInit /\ [][ApiNext]_vars

(***************************************************************************)
(* What the calls of an invocation did.                                    *)
(***************************************************************************)
\* the places of trace where call k of invocation r did something of a kind
Events(r, k, kind) ==
    {j \in 1..Len(trace) :
        trace[j].req = r /\ trace[j].k = k /\ trace[j].kind = kind}

\* the lines call k of invocation r printed
LinesOf(r, k) == {stdout[trace[j].n] : j \in Events(r, k, "line")}

\* call k of invocation r has returned to the handler
Returned(r, k) == Events(r, k, "return") # {}

\* the calls invocation r has made so far
CallsOf(r) == 1..Len(rq[r].made)

(***************************************************************************)
(* What one call did, and what its arguments say it should do.             *)
(***************************************************************************)
\* the rows inserted, the requests made and the lines printed since the
\* severity method in progress was entered
CallRows == SubSeq(rows, frame.rows0 + 1, Len(rows))
CallPuts == SubSeq(puts, frame.puts0 + 1, Len(puts))
CallOut == SubSeq(stdout, frame.out0 + 1, Len(stdout))

MetricErrorLines == {LineMetric(e) : e \in ClientErrors \ {NilErr}}
DBErrorLines ==
    {LineMarshalMetadata}
    \cup {LineEnsure(e) : e \in ExecErrors \ {NilErr}}
    \cup {LineInsert(e) : e \in ExecErrors \ {NilErr}}
    \cup {LineInsert(ErrInvalidJSON)}
ErrorLines == {LineMarshalEntry} \cup MetricErrorLines \cup DBErrorLines

Printed(lines) == \E j \in 1..Len(CallOut) : CallOut[j] \in lines
IsJSONLine(line) == line \notin ErrorLines

\* the metadata map of the call: the one passed, or none
MetaArg == IF Len(frame.metadata) > 0 THEN frame.metadata[1] ELSE NilMap

\* the string the metadata map holds under key, "" when it holds none
Mirror(key) ==
    IF \E e \in MetaArg.kv : e.k = key /\ e.val.t = "string"
    THEN (CHOOSE e \in MetaArg.kv : e.k = key).val.s
    ELSE ""

Unserializable == \E e \in MetaArg.kv : e.val.t = "chan"

\* the level named like the method called
FrameLevel ==
    [Debug |-> "DEBUG", Info |-> "INFO", Warn |-> "WARN", Error |-> "ERROR",
     Fatal |-> "FATAL"][frame.method]

\* the call carries no error: the method takes none, or nil was passed
NoErrorArg == frame.method \notin {"Error", "Fatal"} \/ frame.err.isNil

SinksOfKind(kind) == {i \in 1..Len(loggers) : loggers[i].kind = kind}

(***************************************************************************)
(* C1.  A logging call never hands a failure to its caller: whatever sink  *)
(* failures occur, no sink raises, and a failed metrics request shows on   *)
(* the console as soon as the sink that made it has printed.               *)
(***************************************************************************)
C1_FailuresStayOnConsole ==
    /\ pc # "raised"
    /\ \A i \in 1..Len(CallPuts) :
          (CallPuts[i].failed /\ ~(pc = "printf" /\ i = Len(CallPuts)))
              => Printed(MetricErrorLines)

\* a call returned although the metrics request and the insert both failed
C1_Witness ==
    /\ pc = "returned"
    /\ Printed(MetricErrorLines)
    /\ Printed({LineInsert(e) : e \in ExecErrors \ {NilErr}})

(***************************************************************************)
(* C2.  On the logger [metrics sink, database sink], a failing metrics     *)
(* request does not keep the database sink from being called and from      *)
(* inserting its row in the same call, and the call returns.               *)
(***************************************************************************)
C2_MetricFailureKeepsDBRow ==
    (/\ loggers = MainLoggers
     /\ CallPuts # <<>>
     /\ CallPuts[1].failed)
    => /\ pc \in {"fanout", "printf", "println", "ensureprintf", "insert",
                 "insertprintf", "returned"}
       /\ (pc = "returned" =>
             /\ Len(delivered) = 2
             /\ delivered[2].kind = "db"
             /\ (~Printed(DBErrorLines) =>
                   /\ Len(CallRows) = 1
                   /\ CallRows[1].level = FrameLevel
                   /\ CallRows[1].message = frame.message))

\* the metrics request failed and the row of the same call is in the table
C2_Witness ==
    /\ pc = "returned"
    /\ loggers = MainLoggers
    /\ CallPuts # <<>>
    /\ CallPuts[1].failed
    /\ Len(CallRows) = 1

(***************************************************************************)
(* C3.  A severity method of a composite of N sinks calls each sink        *)
(* exactly once, in construction order, with the same-named method and     *)
(* the same message, error and metadata, whether or not a sink fails.      *)
(***************************************************************************)
C3_OneCallPerSinkInOrder ==
    /\ (pc = "fanout" => Len(delivered) = idx - 1)
    /\ (pc = "returned" =>
          delivered = [i \in 1..Len(loggers) |->
                         [sink |-> i, kind |-> loggers[i].kind,
                          method |-> frame.method, ctx |-> frame.ctx,
                          message |-> frame.message, err |-> frame.err,
                          metadata |-> frame.metadata]])

\* a Warn on two sinks returned after the first sink reported a failure
C3_Witness ==
    /\ pc = "returned"
    /\ Len(loggers) = 2
    /\ frame.method = "Warn"
    /\ Len(delivered) = 2
    /\ Len(CallOut) > 0
    /\ CallOut[1] \in ErrorLines

(***************************************************************************)
(* C4.  In every LogEntry a sink builds, action, resource and resource_id  *)
(* equal the string the metadata map holds under that key and are empty    *)
(* when the key is absent, not a string, or no map was passed; the map     *)
(* itself is kept whole.                                                   *)
(***************************************************************************)
C4_DerivedFieldsMirrorMetadata ==
    \A i \in 1..Len(built) :
        /\ built[i].Action = Mirror("action")
        /\ built[i].Resource = Mirror("resource")
        /\ built[i].ResourceID = Mirror("resource_id")
        /\ built[i].Metadata = MetaArg

\* both sinks built an entry from a map whose resource is not a string
C4_Witness ==
    /\ Len(built) = 2
    /\ built[1].ResourceID = "42"
    /\ built[2].Resource = ""
    /\ \E e \in MetaArg.kv : e.k = "resource" /\ e.val.t = "int"
    /\ {loggers[1].kind, loggers[2].kind} = {"cw", "db"}

(***************************************************************************)
(* C5.  The metric is named level_resource when the entry has a resource   *)
(* and exactly the level when it has none.                                 *)
(***************************************************************************)
C5_MetricNameDegradesToLevel ==
    \A i \in 1..Len(CallPuts) :
        CallPuts[i].request.MetricData[1].MetricName =
            IF Mirror("resource") = "" THEN FrameLevel
            ELSE FrameLevel \o "_" \o Mirror("resource")

(***************************************************************************)
(* C6.  The row of a call without an error has a null error_message; the   *)
(* row of a call with an error has that error's message text.              *)
(***************************************************************************)
C6_ErrorMessageNullOrText ==
    \A i \in 1..Len(CallRows) :
        IF NoErrorArg
        THEN CallRows[i].error_message.isNull
        ELSE /\ ~CallRows[i].error_message.isNull
             /\ CallRows[i].error_message.text = frame.err.msg

(***************************************************************************)
(* C7.  As claimed: one call builds one LogEntry that every sink writes,   *)
(* so the entries the sinks hold are one and the same, and the row and     *)
(* the datum of one call carry the same timestamp.                         *)
(***************************************************************************)
C7_OneEntryForAllSinks ==
    /\ \A i, j \in 1..Len(built) : built[i] = built[j]
    /\ \A i \in 1..Len(CallRows), j \in 1..Len(CallPuts) :
          CallRows[i].timestamp = CallPuts[j].request.MetricData[1].Timestamp

\* what the caller gave and what is derived from it: an entry without the
\* instant and the service name, which come from the sink that built it
WithoutTimestamp(entry) == [entry EXCEPT !.Timestamp = 0, !.ServiceName = ""]

\* the fields of an entry a row stores
RowCarries(row, entry) ==
    /\ row.timestamp = entry.Timestamp
    /\ row.level = entry.Level
    /\ row.message = entry.Message
    /\ row.service_name = entry.ServiceName
    /\ row.request_id = entry.RequestID
    /\ row.user_id = entry.UserID
    /\ row.action = entry.Action
    /\ row.resource = entry.Resource
    /\ row.resource_id = entry.ResourceID

(***************************************************************************)
(* C7, amended.  Each sink builds its own LogEntry for the call, so a      *)
(* call on N sinks builds N entries.  They agree on level, message,        *)
(* request_id, user_id, error, metadata and derived fields; each carries   *)
(* the wall-clock instant its sink read when it built it, and nothing      *)
(* relates the instants of two sinks.  Every row and every datum of the    *)
(* call carries the fields of the entry of the sink that wrote it.         *)
(***************************************************************************)
C7_EntryPerSinkSameButTimestamp ==
    /\ Len(built) = Len(delivered)
    /\ \A i, j \in 1..Len(built) :
          WithoutTimestamp(built[i]) = WithoutTimestamp(built[j])
    /\ \A i \in 1..Len(built) :
          /\ built[i].Level = FrameLevel
          /\ built[i].Message = frame.message
          /\ built[i].RequestID =
                (IF \E e \in frame.ctx.kv : e.k = "requestID" /\ e.val.t = "string"
                 THEN (CHOOSE e \in frame.ctx.kv : e.k = "requestID").val.s
                 ELSE "")
          /\ built[i].UserID =
                (IF \E e \in frame.ctx.kv : e.k = "userID" /\ e.val.t = "int"
                 THEN (CHOOSE e \in frame.ctx.kv : e.k = "userID").val.n
                 ELSE 0)
    /\ \A i \in 1..Len(CallPuts) :
          CallPuts[i].request.MetricData[1].Timestamp =
              built[CallPuts[i].sink].Timestamp
    /\ \A i \in 1..Len(CallRows) :
          \E k \in SinksOfKind("db") :
              k <= Len(built) /\ RowCarries(CallRows[i], built[k])

\* the row and the datum of one call on the process-wide logger carry
\* different timestamps and the same request id
C7_Witness ==
    /\ pc = "returned"
    /\ loggers = MainLoggers
    /\ Len(CallRows) = 1
    /\ Len(CallPuts) = 1
    /\ CallRows[1].timestamp # CallPuts[1].request.MetricData[1].Timestamp
    /\ CallRows[1].request_id = "req-1"
    /\ CallRows[1].user_id = 7

(***************************************************************************)
(* C8.  Every datum carries ServiceName, carries Resource exactly when     *)
(* the entry has a resource and Action exactly when it has an action, has  *)
(* value 1, unit Count and the timestamp of its sink's entry.  An Error    *)
(* with action CreateUser and resource users gives ERROR_users with the    *)
(* three dimensions.                                                       *)
(***************************************************************************)
C8_DatumDimensions ==
    \A i \in 1..Len(CallPuts) :
        LET req == CallPuts[i].request
            d == req.MetricData[1]
            dims == d.Dimensions
            res == Mirror("resource")
            act == Mirror("action")
        IN  /\ Len(req.MetricData) = 1
            /\ dims = <<[Name |-> "ServiceName", Value |-> ServiceName]>>
                      \o (IF res # "" THEN <<[Name |-> "Resource", Value |-> res]>>
                          ELSE <<>>)
                      \o (IF act # "" THEN <<[Name |-> "Action", Value |-> act]>>
                          ELSE <<>>)
            /\ d.Value = 1
            /\ d.Unit = "Count"
            /\ d.Timestamp = built[CallPuts[i].sink].Timestamp
            /\ (frame.method = "Error" /\ res = "users" /\ act = "CreateUser"
                  => /\ d.MetricName = "ERROR_users"
                     /\ Len(dims) = 3)

\* a datum with an Action and no Resource, made at the tick after the call
C8_Witness ==
    /\ Len(CallPuts) = 1
    /\ Mirror("action") = "GetUser"
    /\ Mirror("resource") = ""
    /\ Len(CallPuts[1].request.MetricData[1].Dimensions) = 2
    /\ CallPuts[1].request.MetricData[1].Timestamp = 1

(***************************************************************************)
(* C9.  Every call of a severity method on a metrics sink makes exactly    *)
(* one metrics request and prints exactly one JSON line, whatever the      *)
(* entry.                                                                  *)
(***************************************************************************)
C9_OneRequestOneLinePerSinkCall ==
    pc = "returned" =>
        /\ Len(CallPuts) = Cardinality(SinksOfKind("cw"))
        /\ Len(SelectSeq(CallOut, IsJSONLine)) = Cardinality(SinksOfKind("cw"))

(***************************************************************************)
(* C10.  When the metadata map cannot be serialized, the database sink     *)
(* inserts nothing and the metrics sink of the same call still makes its   *)
(* request.                                                                *)
(***************************************************************************)
C10_MarshalFailureOnlyStopsDBSink ==
    (pc = "returned" /\ loggers = MainLoggers /\ Unserializable)
    => /\ CallRows = <<>>
       /\ Len(CallPuts) = 1

(***************************************************************************)
(* C20.  A call that passes no metadata map leaves, for every database     *)
(* sink the connection did not fail, one row whose metadata column is      *)
(* null and whose action, resource and resource_id are empty: the insert   *)
(* succeeds.                                                               *)
(***************************************************************************)
ConnectionLines ==
    {LineEnsure(e) : e \in ExecErrors \ {NilErr}}
    \cup {LineInsert(e) : e \in ExecErrors \ {NilErr}}

C20_NoMetadataRowHasNullMetadata ==
    (pc = "returned" /\ MetaArg.isNil /\ ~Printed(ConnectionLines))
    => /\ Len(CallRows) = Cardinality(SinksOfKind("db"))
       /\ \A i \in 1..Len(CallRows) :
              /\ CallRows[i].metadata.isNil
              /\ CallRows[i].action = ""
              /\ CallRows[i].resource = ""
              /\ CallRows[i].resource_id = ""

(***************************************************************************)
(* C19.  The extraction functions never fail: every entry a sink builds    *)
(* has the empty request id when the context is nil, has no "requestID"    *)
(* key or holds a value there that is not a string, and the stored string  *)
(* otherwise; it has user id zero when the context is nil, has no          *)
(* "userID" key or holds a value there that is not an int, and the stored  *)
(* int otherwise; and the logging call then proceeds normally: no sink     *)
(* raises anything in the caller.                                          *)
(***************************************************************************)
StoredString(ctx, key) ==
    {e.val.s : e \in {x \in ctx.kv : x.k = key /\ x.val.t = "string"}}
StoredInt(ctx, key) ==
    {e.val.n : e \in {x \in ctx.kv : x.k = key /\ x.val.t = "int"}}

\* what the entries built so far hold for the context of the call
ExtractionTreatsAsAbsent ==
    /\ Len(built) = Len(delivered)
    /\ \A i \in 1..Len(built) :
          /\ IF frame.ctx.isNil \/ StoredString(frame.ctx, "requestID") = {}
             THEN built[i].RequestID = ""
             ELSE built[i].RequestID \in StoredString(frame.ctx, "requestID")
          /\ IF frame.ctx.isNil \/ StoredInt(frame.ctx, "userID") = {}
             THEN built[i].UserID = 0
             ELSE built[i].UserID \in StoredInt(frame.ctx, "userID")
          /\ built[i].Message = frame.message

C19_ExtractionNeverFails ==
    /\ ExtractionTreatsAsAbsent
    /\ pc # "raised"

(***************************************************************************)
(* C11.  A call whose table statement fails inserts no row, and the        *)
(* failure is not remembered: the next call of the same invocation runs    *)
(* the table statement again and, when the connection accepts it, prints   *)
(* no table failure and, unless its own insert fails, stores its own       *)
(* entry in the table.                                                     *)
(***************************************************************************)
EnsureLines == {LineEnsure(e) : e \in ExecErrors \ {NilErr}}

C11_CreateFailureNotRemembered ==
    \A r \in DOMAIN rq : \A k \in CallsOf(r) :
        /\ (\A j \in Events(r, k, "create") :
               trace[j].n = 0 => Events(r, k, "insert") = {})
        /\ (/\ k > 1
            /\ Returned(r, k)
            /\ \E j \in Events(r, k - 1, "create") : trace[j].n = 0)
           => /\ Events(r, k, "create") # {}
              /\ \A j \in Events(r, k, "create") :
                    trace[j].n = 1 =>
                        /\ LinesOf(r, k) \cap EnsureLines = {}
                        /\ dbLogger.tableName \in tables
                        /\ LinesOf(r, k) \cap DBErrorLines = {} =>
                              \E i \in Events(r, k, "insert") :
                                  rows[trace[i].n].message =
                                      rq[r].made[k].message

\* the first call of CreateLugar found no table and could not create it; the
\* second created it and stored its entry, the only row
C11_Witness ==
    /\ Len(rq) = 1
    /\ Len(rq[1].made) = 2
    /\ Returned(1, 2)
    /\ \E j \in Events(1, 1, "create") : trace[j].n = 0
    /\ \E j \in Events(1, 2, "create") : trace[j].n = 1
    /\ tables = {dbLogger.tableName}
    /\ Len(rows) = 1
    /\ rows[1].message = "Lugar created successfully"
    /\ rows[1].level = "INFO"

(***************************************************************************)
(* C12.  Every row a call inserts comes after the table statement of that  *)
(* same call, and a table statement run while the audit table exists, by   *)
(* whichever invocation and however often, leaves the set of tables and    *)
(* the stored rows as they were and, when the connection accepts it,       *)
(* fails in no way of its own: the call goes on to its INSERT, and a line  *)
(* about the table is printed only by a call whose table statement the     *)
(* connection refused.                                                     *)
(***************************************************************************)
InsertsFollowCreate ==
    \A j \in 1..Len(trace) :
        trace[j].kind = "insert" =>
            \E i \in 1..(j - 1) :
                /\ trace[i].kind = "create"
                /\ trace[i].req = trace[j].req
                /\ trace[i].k = trace[j].k
                /\ trace[i].n = 1

CreateOnExistingTable ==
    (/\ Len(trace') > Len(trace)
     /\ trace'[Len(trace) + 1].kind = "create"
     /\ dbLogger.tableName \in tables)
    => /\ tables' = tables
       /\ rows' = rows
       /\ stdout' = stdout
       /\ trace'[Len(trace) + 1].n = 1 =>
             rq'[trace'[Len(trace) + 1].req].pc = "insert"

EnsureLinesFollowRefusal ==
    \A j \in 1..Len(trace) :
        (/\ trace[j].kind = "line"
         /\ stdout[trace[j].n] \in
               {LineEnsure(e) : e \in ExecErrors \ {NilErr}})
        => \E i \in 1..(j - 1) :
               /\ trace[i].kind = "create"
               /\ trace[i].req = trace[j].req
               /\ trace[i].k = trace[j].k
               /\ trace[i].n = 0

C12_CreateBeforeInsertAndIdempotent ==
    [][/\ CreateOnExistingTable
       /\ InsertsFollowCreate'
       /\ EnsureLinesFollowRefusal']_vars

\* two invocations ran their table statements one after the other on the
\* table an earlier invocation had created, then each inserted its row
C12_Witness ==
    /\ Len(rq) = 2
    /\ Len(rows) = 3
    /\ rows[1] = PriorRow
    /\ tables = {dbLogger.tableName}
    /\ \E a \in Events(1, 1, "create"), b \in Events(2, 1, "create"),
          c \in Events(1, 1, "insert") \cup Events(2, 1, "insert") :
          /\ a < c /\ b < c
          /\ trace[a].n = 1 /\ trace[b].n = 1
    /\ \A j \in 1..Len(stdout) : stdout[j] \notin DBErrorLines

(***************************************************************************)
(* C13.  When a call of the composite logger returns to the handler every  *)
(* configured sink has finished its attempt: the metrics sink made its     *)
(* request or printed why not, the database sink ran its table statement   *)
(* and, if that went through, stored its row or printed why not.  All a    *)
(* call does to the sinks happens between its entry and its return.        *)
(***************************************************************************)
SinkKinds == {"put", "create", "insert", "line"}

AttemptDone(r, k, i, j) ==
    IF loggers[i].kind = "cw"
    THEN \/ \E e \in Events(r, k, "put") : e < j /\ puts[trace[e].n].sink = i
         \/ \E e \in Events(r, k, "line") :
               e < j /\ stdout[trace[e].n] = LineMarshalEntry
    ELSE \E e \in Events(r, k, "create") :
            /\ e < j
            /\ \/ \E d \in Events(r, k, "insert") : e < d /\ d < j
               \/ \E d \in Events(r, k, "line") :
                     e < d /\ d < j /\ stdout[trace[d].n] \in DBErrorLines

C13_ReturnAfterEverySink ==
    \A r \in DOMAIN rq : \A k \in CallsOf(r) :
        /\ \A j \in Events(r, k, "return") :
               \A i \in 1..Len(loggers) : AttemptDone(r, k, i, j)
        /\ \A e \in 1..Len(trace) :
               (trace[e].req = r /\ trace[e].k = k
                /\ trace[e].kind \in SinkKinds)
               => /\ \E c \in Events(r, k, "call") : c < e
                  /\ \A j \in Events(r, k, "return") : e < j

\* a call returned after the metrics request failed and the row was stored
C13_Witness ==
    /\ Len(rq) = 1
    /\ Returned(1, 1)
    /\ \E e \in Events(1, 1, "put") : puts[trace[e].n].failed
    /\ Events(1, 1, "insert") # {}
    /\ rq[1].pc = "done"

(***************************************************************************)
(* C14.  Of two calls an invocation makes one after the other, each sink   *)
(* writes the first call's entry before the second's: the rows of the      *)
(* audit table and the metrics requests are in call order, each carrying   *)
(* the level and message of its own call.                                  *)
(***************************************************************************)
InCallOrder(kind) ==
    \A a, b \in 1..Len(trace) :
        (/\ trace[a].kind = kind /\ trace[b].kind = kind
         /\ trace[a].req = trace[b].req
         /\ trace[a].k < trace[b].k)
        => trace[a].n < trace[b].n

C14_SinksWriteInCallOrder ==
    /\ InCallOrder("insert")
    /\ InCallOrder("put")
    /\ \A e \in 1..Len(trace) :
          LET c == rq[trace[e].req].made[trace[e].k]
          IN  /\ trace[e].kind = "insert" =>
                    /\ rows[trace[e].n].message = c.message
                    /\ rows[trace[e].n].level = LevelOfMethod(c.method)
              /\ trace[e].kind = "put" =>
                    puts[trace[e].n].request.MetricData[1].MetricName
                        = LevelOfMethod(c.method) \o "_lugares"
                    \/ puts[trace[e].n].request.MetricData[1].MetricName
                        = LevelOfMethod(c.method) \o "_users"

\* CreateLugar logged the image that could not be added and then its
\* success: two rows and two requests, the ERROR ones first
C14_Witness ==
    /\ Len(rq) = 1
    /\ rq[1].pc = "done"
    /\ tables = {dbLogger.tableName}
    /\ Len(rows) = 2
    /\ rows[1].message = "Error adding image to lugar"
    /\ rows[2].message = "Lugar created successfully"
    /\ Len(puts) = 2
    /\ puts[1].request.MetricData[1].MetricName = "ERROR_lugares"
    /\ puts[2].request.MetricData[1].MetricName = "INFO_lugares"

(***************************************************************************)
(* C15.  The response of an invocation (status, headers, body) is the one  *)
(* the handler computes from the request and the answers of the            *)
(* repository, whether the audit sinks succeeded or failed.                *)
(***************************************************************************)
C15_ResponseIgnoresSinks ==
    \A r \in DOMAIN rq :
        rq[r].pc = "done" =>
            \E env \in Envs :
                /\ rq[r].resp = <<router(rq[r].request, InitialStore, env).resp>>
                /\ rq[r].made = router(rq[r].request, InitialStore, env).calls

\* GET /users/42 answered 200 with the user while the metrics request
\* failed and the audit table could not be created
C15_Witness ==
    /\ Len(rq) = 1
    /\ rq[1].pc = "done"
    /\ rq[1].resp[1].StatusCode = 200
    /\ rq[1].resp[1].Body = MarshalUser(CHOOSE u \in StoredUsers : u.ID = 42)
    /\ AsString(rq[1].resp[1].Headers, "Content-Type") = "application/json"
    /\ rows = <<>>
    /\ \E j \in 1..Len(stdout) : stdout[j] \in MetricErrorLines
    /\ \E j \in 1..Len(stdout) : stdout[j] \in EnsureLines

(***************************************************************************)
(* C16.  When two invocations log at the same time through the one         *)
(* composite logger, under every interleaving of their statements every    *)
(* call makes its own metrics request and, unless its own database         *)
(* statements fail, stores its own row, once; each row carries the level,  *)
(* message, request id and metadata fields of the call that stored it and  *)
(* each request the level, resource and action of the call that made it.   *)
(***************************************************************************)
MetaString(c, key) ==
    IF IsString(c.metadata[1], key) THEN AsString(c.metadata[1], key) ELSE ""

HasDimension(datum, name, value) ==
    \E d \in 1..Len(datum.Dimensions) :
        datum.Dimensions[d] = Dimension(name, value)

C16_ConcurrentCallsKeepTheirEntries ==
    /\ \A e \in 1..Len(trace) :
          LET r == trace[e].req
              c == rq[r].made[trace[e].k]
          IN  /\ trace[e].kind = "insert" =>
                    LET row == rows[trace[e].n]
                    IN  /\ row.level = LevelOfMethod(c.method)
                        /\ row.message = c.message
                        /\ row.request_id =
                              AsString(rq[r].request.Headers, "x-request-id")
                        /\ row.action = MetaString(c, "action")
                        /\ row.resource = MetaString(c, "resource")
                        /\ row.resource_id = MetaString(c, "resource_id")
                        /\ row.error_message.text = c.err.msg
              /\ trace[e].kind = "put" =>
                    LET datum == puts[trace[e].n].request.MetricData[1]
                    IN  /\ datum.MetricName =
                              LevelOfMethod(c.method) \o "_"
                              \o MetaString(c, "resource")
                        /\ HasDimension(datum, "Action", MetaString(c, "action"))
                        /\ HasDimension(datum, "Resource",
                                        MetaString(c, "resource"))
    /\ \A a \in 1..Len(trace) :
          trace[a].kind \in {"insert", "put"} =>
              \A b \in (a + 1)..Len(trace) :
                  trace[a].kind = trace[b].kind
                  => /\ trace[a].n # trace[b].n
                     /\ ~(/\ trace[a].req = trace[b].req
                          /\ trace[a].k = trace[b].k)
    /\ \A r \in DOMAIN rq : \A k \in CallsOf(r) :
          Returned(r, k) =>
              /\ Events(r, k, "put") # {}
              /\ LinesOf(r, k) \cap DBErrorLines = {} =>
                    Events(r, k, "insert") # {}

\* the second invocation ran its table statement and its insert between the
\* table statement and the insert of the first; both rows are stored, each
\* with its own request id
C16_Witness ==
    /\ Len(rq) = 2
    /\ rq[1].pc = "done" /\ rq[2].pc = "done"
    /\ \E a \in Events(1, 1, "create"), b \in Events(2, 1, "insert"),
          c \in Events(1, 1, "insert") :
          /\ a < b /\ b < c
          /\ rows[trace[b].n].request_id = "req-2"
          /\ rows[trace[c].n].request_id = "req-1"
          /\ rows[trace[b].n].level # rows[trace[c].n].level
    /\ Len(puts) = 2

(***************************************************************************)
(* C17.  Every row an invocation stores carries the value of the request's *)
(* x-request-id header, whatever the case of the header's name, and the    *)
(* empty request id when the request has no such header.                   *)
(***************************************************************************)
\* the header names drawn here, in lower case
LowerCase(name) == IF name = "X-Request-Id" THEN "x-request-id" ELSE name

HeaderValue(headers, name) ==
    LET m == {e \in headers.kv : LowerCase(e.k) = name}
    IN  IF m = {} THEN "" ELSE (CHOOSE e \in m : TRUE).val.s

C17_RequestIDFromHeaderAnyCase ==
    \A e \in 1..Len(trace) :
        trace[e].kind = "insert" =>
            rows[trace[e].n].request_id =
                HeaderValue(rq[trace[e].req].request.Headers, "x-request-id")

(***************************************************************************)
(* C18.  Every row an invocation stores carries in user_id the user id of  *)
(* the caller, the principal of the request.                               *)
(***************************************************************************)
C18_UserIDFromPrincipal ==
    \A e \in 1..Len(trace) :
        trace[e].kind = "insert" =>
            rows[trace[e].n].user_id = rq[trace[e].req].request.principal

(***************************************************************************)
(* The claims on the handlers of the router are checked under ApiSpec.     *)
(***************************************************************************)
\* invocation r was dispatched to a handler
Dispatched(r) == rq[r].pc # "new" /\ Route(rq[r].request) \in Handlers

\* invocation r has returned the response of its handler
Answered(r) == rq[r].pc = "done" /\ Len(rq[r].resp) = 1

\* the response of invocation r
ResponseOf(r) == rq[r].resp[1]

(***************************************************************************)
(* C21.  Every request the router dispatches to a handler makes at least   *)
(* one call of a severity method of the audit logger, and the call has     *)
(* returned, before the handler returns its response: whatever the path    *)
(* the handler took.                                                       *)
(***************************************************************************)
C21_EveryDispatchLogsBeforeResponse ==
    \A r \in DOMAIN rq :
        Dispatched(r) /\ Answered(r) =>
            /\ Len(rq[r].made) >= 1
            /\ \A k \in CallsOf(r) :
                  /\ rq[r].made[k].method \in Methods
                  /\ Events(r, k, "call") # {}
                  /\ Returned(r, k)

\* DELETE /users/abc was answered 400 after one ERROR call
C21_Witness ==
    /\ Answered(1)
    /\ Route(rq[1].request) = "DeleteUser"
    /\ ResponseOf(1) = createErrorResponse(400, "Invalid user ID")
    /\ Len(rq[1].made) = 1
    /\ rq[1].made[1].method = "Error"
    /\ Returned(1, 1)

(***************************************************************************)
(* C22.  Every endpoint the README lists is dispatched to exactly one      *)
(* handler, the one of its resource family and operation, and is never     *)
(* answered with the 404 Not Found of the router.                          *)
(***************************************************************************)
\* README, "API Endpoints": the endpoints and the handler each names
ReadmeEndpoints ==
    {RouteOf("GET", "/users", "ListUsers"),
     RouteOf("GET", "/users/{id}", "GetUser"),
     RouteOf("POST", "/users", "CreateUser"),
     RouteOf("PUT", "/users/{id}", "UpdateUser"),
     RouteOf("DELETE", "/users/{id}", "DeleteUser"),
     RouteOf("GET", "/lugares", "ListLugares"),
     RouteOf("GET", "/lugares/{id}", "GetLugar"),
     RouteOf("POST", "/lugares", "CreateLugar"),
     RouteOf("PUT", "/lugares/{id}", "UpdateLugar"),
     RouteOf("DELETE", "/lugares/{id}", "DeleteLugar"),
     RouteOf("GET", "/cancoes", "ListCancoes"),
     RouteOf("GET", "/cancoes/{id}", "GetCancao"),
     RouteOf("POST", "/cancoes", "CreateCancao"),
     RouteOf("PUT", "/cancoes/{id}", "UpdateCancao"),
     RouteOf("DELETE", "/cancoes/{id}", "DeleteCancao")}

\* the endpoints of the README the request of invocation r names
EndpointsOf(r) ==
    {e \in ReadmeEndpoints : /\ e.method = rq[r].request.HTTPMethod
                             /\ e.resource = rq[r].request.Resource}

\* the value of "action" in the metadata of a call: every handler names
\* itself there
ActionOf(call) == AsString(call.metadata[1], "action")

C22_ReadmeEndpointsReachTheirHandler ==
    \A r \in DOMAIN rq :
        rq[r].pc # "new" =>
            \A e \in EndpointsOf(r) :
                /\ Cardinality({x \in Routes :
                                   /\ x.method = e.method
                                   /\ x.resource = e.resource}) = 1
                /\ Route(rq[r].request) = e.handler
                /\ rq[r].planned # NotFoundResponse
                /\ \A k \in 1..Len(rq[r].made) :
                      ActionOf(rq[r].made[k]) = e.handler
                /\ \A k \in 1..Len(rq[r].todo) :
                      rq[r].todo[k].log # <<>> =>
                          ActionOf(rq[r].todo[k].log[1]) = e.handler

\* PUT /cancoes/1 was answered 200 by UpdateCancao
C22_Witness ==
    /\ Answered(1)
    /\ rq[1].request.HTTPMethod = "PUT"
    /\ rq[1].request.Resource = "/cancoes/{id}"
    /\ ResponseOf(1).StatusCode = 200
    /\ Len(rq[1].made) = 1
    /\ ActionOf(rq[1].made[1]) = "UpdateCancao"

(***************************************************************************)
(* C23.  POST /users with a body carrying a non-empty username, a          *)
(* non-empty password and the role read or write creates the user and is   *)
(* answered 201 with the created user; it is answered 400 "Invalid user    *)
(* data" only when one of the three conditions is violated.                *)
(***************************************************************************)
\* the fields of the user body request carries, when it is one of them
UserFieldsOf(request) ==
    {x \in UserFields : request.Body = UserBody(x[1], x[2], x[3])}

C23_ValidUserIsCreated ==
    \A r \in DOMAIN rq :
        Answered(r) /\ Route(rq[r].request) = "CreateUser" =>
            \A x \in UserFieldsOf(rq[r].request) :
                /\ ResponseOf(r) = createErrorResponse(400, "Invalid user data")
                      => x[1] = "" \/ x[2] = "" \/ ~IsValidRole(x[3])
                /\ (x[1] # "" /\ x[2] # "" /\ IsValidRole(x[3])
                    /\ ResponseOf(r).StatusCode # 500)
                      => /\ ResponseOf(r).StatusCode = 201
                         /\ \E u \in store.users :
                               /\ u.Username = x[1]
                               /\ u.Password = x[2]
                               /\ u.Role = x[3]
                               /\ ResponseOf(r).Body = MarshalUser(u)

(***************************************************************************)
(* C24.  No response body of the user handlers and no metadata they hand   *)
(* to the audit logger contains a password: what an invocation answers and *)
(* logs is what it answers and logs when every password, stored or sent,   *)
(* is blank, and no metadata value is a password.                          *)
(***************************************************************************)
UserHandlers ==
    {"ListUsers", "GetUser", "CreateUser", "UpdateUser", "DeleteUser"}

\* the passwords of the stored users and of the bodies drawn
Passwords ==
    {u.Password : u \in InitialStore.users} \cup {x[2] : x \in UserFields}

\* the tables with every password blank
WithoutPasswords(st) ==
    [st EXCEPT !.users = {[u EXCEPT !.Password = ""] : u \in @}]

\* the request with the password of its body blank
WithoutPassword(request) ==
    IF UserFieldsOf(request) = {} THEN request
    ELSE LET x == CHOOSE y \in UserFieldsOf(request) : TRUE
         IN  [request EXCEPT !.Body = UserBody(x[1], "", x[3])]

C24_PasswordNeverLeaves ==
    \A r \in DOMAIN rq :
        Answered(r) /\ Route(rq[r].request) \in UserHandlers =>
            /\ \E env \in Envs :
                  LET p == Dispatch(Route(rq[r].request),
                                    WithoutPassword(rq[r].request),
                                    WithoutPasswords(InitialStore), env)
                  IN  /\ ResponseOf(r) = p.resp
                      /\ rq[r].made = p.calls
            /\ \A k \in CallsOf(r) :
                  \A e \in rq[r].made[k].metadata[1].kv :
                      e.val.t = "string" => e.val.s \notin Passwords \ {""}

\* GET /users/42 was answered 200 with the record of a user whose password
\* is not blank
C24_Witness ==
    /\ Answered(1)
    /\ Route(rq[1].request) = "GetUser"
    /\ ResponseOf(1).StatusCode = 200
    /\ \E u \in store.users :
          /\ u.Password # ""
          /\ ResponseOf(1).Body = MarshalUser(u)

(***************************************************************************)
(* C25.  GET /users/{id} and PUT /users/{id} with a well-formed id that    *)
(* names no stored user are answered 404 "User not found" after one WARN   *)
(* call, and not 500 after an ERROR call, unless the connection failed.    *)
(***************************************************************************)
\* the errors GetByID returns when the connection failed
ConnectionFailures ==
    {ErrOf("error getting user by ID: " \o e.msg) : e \in ExecErrors \ {NilErr}}

\* the request of invocation r names, with a well-formed id, a user that
\* is not stored
NamesMissingUser(r) ==
    LET a == Atoi(AsString(rq[r].request.PathParameters, "id"))
    IN  /\ Route(rq[r].request) \in {"GetUser", "UpdateUser"}
        /\ a.err.isNil
        /\ ~\E u \in InitialStore.users : u.ID = a.n

C25_MissingUserIsNotFound ==
    \A r \in DOMAIN rq :
        (/\ Answered(r)
         /\ NamesMissingUser(r)
         /\ ~\E k \in CallsOf(r) : rq[r].made[k].err \in ConnectionFailures)
            => /\ ResponseOf(r) = createErrorResponse(404, "User not found")
               /\ Len(rq[r].made) = 1
               /\ rq[r].made[1].method = "Warn"

(***************************************************************************)
(* C26.  AddRatingToLugar and UpdateRatingForLugar hand no rating outside  *)
(* 1..5 to the repository: a request with well-formed ids whose body       *)
(* carries such a rating, or none, is answered 400 "Rating must be between *)
(* 1 and 5" after exactly one WARN call, whatever the connection would     *)
(* answer, and leaves the tables as they were; no stored rating lies       *)
(* outside 1..5.                                                           *)
(***************************************************************************)
\* the path parameters of the request the handler h parses are well-formed
WellFormedIDs(h, request) ==
    /\ Atoi(AsString(request.PathParameters, "id")).err.isNil
    /\ h = "UpdateRatingForLugar"
          => Atoi(AsString(request.PathParameters, "ratingId")).err.isNil

\* invocation r asks to store a rating outside 1..5
SendsBadRating(r) ==
    LET u == UnmarshalRating(rq[r].request.Body)
    IN  /\ Route(rq[r].request) \in {"AddRatingToLugar", "UpdateRatingForLugar"}
        /\ WellFormedIDs(Route(rq[r].request), rq[r].request)
        /\ u.err.isNil
        /\ u.rating.Rating \notin 1..5

C26_OnlyRatingsOneToFive ==
    /\ \A x \in store.ratings : x.Rating \in 1..5
    /\ \A r \in DOMAIN rq :
          Answered(r) /\ SendsBadRating(r) =>
              /\ ResponseOf(r) =
                    createErrorResponse(400, "Rating must be between 1 and 5")
              /\ Len(rq[r].made) = 1
              /\ rq[r].made[1].method = "Warn"
              /\ rq[r].made[1].message = "Invalid rating value"
              /\ store = InitialStore

\* POST /lugares/1/ratings with a body that omits the rating was answered
\* 400 after one WARN call
C26_Witness ==
    /\ Answered(1)
    /\ Route(rq[1].request) = "AddRatingToLugar"
    /\ rq[1].request.Body = RatingBody(42, 0)
    /\ AsString(rq[1].request.PathParameters, "id") = "1"
    /\ ResponseOf(1).StatusCode = 400
    /\ rq[1].made[1].method = "Warn"

(***************************************************************************)
(* C27.  In CreateLugar and CreateCancao, once the main record is stored,  *)
(* an image, tag or ramo that could not be added stops nothing: every      *)
(* other one is attempted, each failed addition makes exactly one ERROR    *)
(* call, and the request ends with one INFO call and a 201 response.       *)
(***************************************************************************)
\* invocation r stored a new place, or a new song
CreatedLugar(r) ==
    /\ Answered(r)
    /\ Route(rq[r].request) = "CreateLugar"
    /\ \E l \in store.lugares \ InitialStore.lugares : l.ID = store.seq.lugares
CreatedCancao(r) ==
    /\ Answered(r)
    /\ Route(rq[r].request) = "CreateCancao"
    /\ \E c \in store.cancoes \ InitialStore.cancoes : c.ID = store.seq.cancoes

\* the entries of a list of the body whose row is missing from the tables
MissingImages(images, lugarID) ==
    {i \in 1..Len(images) :
        ~\E im \in store.images : /\ im.LugarID = lugarID
                                  /\ im.ImageURL = images[i].ImageURL}
MissingLinks(table, tags, owner) ==
    {i \in 1..Len(tags) : Link(table, owner, tags[i].ID) \notin store.links}

\* the ERROR calls of invocation r with the message given
ErrorCalls(r, message) ==
    {k \in CallsOf(r) : /\ rq[r].made[k].method = "Error"
                        /\ rq[r].made[k].message = message}

\* one ERROR call for each missing link, naming it, and no other
OneErrorPerLink(r, table, kind, noun, tags, owner) ==
    LET calls == ErrorCalls(r, "Error adding " \o kind \o " to " \o noun)
    IN  /\ Cardinality(calls) = Cardinality(MissingLinks(table, tags, owner))
        /\ \A i \in MissingLinks(table, tags, owner) :
              \E k \in calls :
                  AsString(rq[r].made[k].metadata[1], kind \o "_id")
                      = ToString(tags[i].ID)

\* the calls of invocation r are ERROR calls followed by one INFO call
EndsWithOneInfo(r, message) ==
    LET n == Len(rq[r].made)
    IN  /\ n >= 1
        /\ rq[r].made[n].method = "Info"
        /\ rq[r].made[n].message = message
        /\ \A k \in 1..(n - 1) : rq[r].made[k].method = "Error"

C27_RelatedFailuresStopNothing ==
    \A r \in DOMAIN rq :
        /\ CreatedLugar(r) =>
              LET lugar == UnmarshalLugar(rq[r].request.Body).lugar
                  id == store.seq.lugares
              IN  /\ ResponseOf(r).StatusCode = 201
                  /\ EndsWithOneInfo(r, "Lugar created successfully")
                  /\ Cardinality(ErrorCalls(r, "Error adding image to lugar"))
                        = Cardinality(MissingImages(lugar.Images, id))
                  /\ OneErrorPerLink(r, "lugares_tags", "tag", "lugar",
                                     lugar.Tags, id)
                  /\ OneErrorPerLink(r, "lugares_ramos", "ramo", "lugar",
                                     lugar.Ramos, id)
                  /\ Len(rq[r].made) =
                        1 + Cardinality(MissingImages(lugar.Images, id))
                        + Cardinality(MissingLinks("lugares_tags",
                                                   lugar.Tags, id))
                        + Cardinality(MissingLinks("lugares_ramos",
                                                   lugar.Ramos, id))
        /\ CreatedCancao(r) =>
              LET cancao == UnmarshalCancao(rq[r].request.Body).cancao
                  id == store.seq.cancoes
              IN  /\ ResponseOf(r).StatusCode = 201
                  /\ EndsWithOneInfo(r, "Cancao created successfully")
                  /\ OneErrorPerLink(r, "cancoes_tags", "tag", "cancao",
                                     cancao.Tags, id)
                  /\ OneErrorPerLink(r, "cancoes_ramos", "ramo", "cancao",
                                     cancao.Ramos, id)
                  /\ Len(rq[r].made) =
                        1 + Cardinality(MissingLinks("cancoes_tags",
                                                     cancao.Tags, id))
                        + Cardinality(MissingLinks("cancoes_ramos",
                                                   cancao.Ramos, id))

\* a place was created with an image, a tag and a ramo in its body: the
\* image could not be added, the tag and the ramo were, and the request
\* ended with an ERROR call, an INFO call and 201
C27_Witness ==
    /\ CreatedLugar(1)
    /\ rq[1].request.Body = LugarBodyWith(0, 0, 42, "Sede", 1, 1, 1)
    /\ ~\E im \in store.images : im.LugarID = store.seq.lugares
    /\ Link("lugares_tags", store.seq.lugares, 1) \in store.links
    /\ Link("lugares_ramos", store.seq.lugares, 1) \in store.links
    /\ Len(rq[1].made) = 2
    /\ rq[1].made[1].message = "Error adding image to lugar"
    /\ ResponseOf(1).StatusCode = 201

(***************************************************************************)
(* C28.  DELETE /lugares/{id}/images/{imageId}, PUT and DELETE             *)
(* /lugares/{id}/ratings/{ratingId} change only images and ratings of the  *)
(* place {id}: the images and the ratings of every other place stay as     *)
(* they were.                                                              *)
(***************************************************************************)
SubResourceHandlers ==
    {"DeleteImageFromLugar", "UpdateRatingForLugar", "DeleteRatingFromLugar"}

C28_SubResourcesOfThePlaceOnly ==
    \A r \in DOMAIN rq :
        Answered(r) /\ Route(rq[r].request) \in SubResourceHandlers =>
            LET a == Atoi(AsString(rq[r].request.PathParameters, "id"))
            IN  a.err.isNil =>
                    /\ \A im \in InitialStore.images :
                          im.LugarID # a.n => im \in store.images
                    /\ \A x \in InitialStore.ratings :
                          x.LugarID # a.n => x \in store.ratings

(***************************************************************************)
(* C29.  Every invocation of router returns a nil error and a response     *)
(* with Content-Type application/json and one of the status codes 200,     *)
(* 201, 204, 400, 404 and 500: a handler was run or no route matched,      *)
(* the ids and the body were well-formed or not, the repository failed or  *)
(* not.                                                                    *)
(***************************************************************************)
StatusCodes == {200, 201, 204, 400, 404, 500}

C29_StatusCodesOnly ==
    \A r \in DOMAIN rq :
        Answered(r) =>
            /\ ResponseOf(r).err.isNil
            /\ AsString(ResponseOf(r).Headers, "Content-Type")
                  = "application/json"
            /\ ResponseOf(r).StatusCode \in StatusCodes

\* DELETE /lugares/1 was answered 500, with a nil error, after the
\* connection refused the statement
C29_Witness ==
    /\ Answered(1)
    /\ Route(rq[1].request) = "DeleteLugar"
    /\ ResponseOf(1) = createErrorResponse(500, "Error deleting lugar")
    /\ ResponseOf(1).err.isNil
    /\ rq[1].made[1].err = ErrOf("error deleting lugar: pq: connection refused")

(***************************************************************************)
(* C30.  UpdateUser, UpdateLugar and UpdateCancao change at most the       *)
(* record whose id is the path parameter, and leave its id and its         *)
(* created_at as they were, whatever id and created_at the body carries;   *)
(* an invocation that is not answered 200 changes no stored record.        *)
(***************************************************************************)
UpdateHandlers == {"UpdateUser", "UpdateLugar", "UpdateCancao"}

\* the rows of a table of records: each but the one with the id given is
\* as it was, no id appeared or went, and no created_at changed
OnlyRowChanged(before, after, id) ==
    /\ \A x \in before : x.ID # id => x \in after
    /\ {x.ID : x \in after} = {x.ID : x \in before}
    /\ \A x \in before, y \in after : x.ID = y.ID => x.CreatedAt = y.CreatedAt

C30_UpdateTouchesOneRecord ==
    \A r \in DOMAIN rq :
        Answered(r) /\ Route(rq[r].request) \in UpdateHandlers =>
            LET a == Atoi(AsString(rq[r].request.PathParameters, "id"))
            IN  /\ OnlyRowChanged(InitialStore.users, store.users, a.n)
                /\ OnlyRowChanged(InitialStore.lugares, store.lugares, a.n)
                /\ OnlyRowChanged(InitialStore.cancoes, store.cancoes, a.n)
                /\ Route(rq[r].request) # "UpdateUser"
                      => store.users = InitialStore.users
                /\ Route(rq[r].request) # "UpdateLugar"
                      => store.lugares = InitialStore.lugares
                /\ Route(rq[r].request) # "UpdateCancao"
                      => store.cancoes = InitialStore.cancoes
                /\ store.images = InitialStore.images
                /\ store.ratings = InitialStore.ratings
                /\ store.links = InitialStore.links
                /\ store.seq = InitialStore.seq
                /\ ResponseOf(r).StatusCode # 200 => store = InitialStore

\* PUT /lugares/1 with a body carrying the id 2 and the created_at 5 was
\* answered 200: place 1 has the new name and its created_at, place 2 is
\* as it was
C30_Witness ==
    /\ Answered(1)
    /\ Route(rq[1].request) = "UpdateLugar"
    /\ AsString(rq[1].request.PathParameters, "id") = "1"
    /\ rq[1].request.Body = LugarBodyWith(2, 5, 42, "Sede", 0, 0, 0)
    /\ ResponseOf(1).StatusCode = 200
    /\ \E x \in store.lugares :
          x.ID = 1 /\ x.NomeLocal = "Sede" /\ x.CreatedAt = 0
    /\ LugarRow(2, "Campo", 42, 0, 0) \in store.lugares

====
